---- MODULE Spec2Model ----
(***************************************************************************)
(* A model of context-mod's configuration pipeline (ConfigBuilder.ts) and  *)
(* of its rule evaluation engine (Rule.run / Rule.initialize).             *)
(*                                                                         *)
(* Three specifications share the variables below:                         *)
(*   Spec          one evaluation pass of a list of rules over one item    *)
(*   SpecRegistry  extractNamedRules / extractNamedActions on one registry *)
(*   SpecConfig    hydrateConfig and parseToStructured on one document     *)
(***************************************************************************)
EXTENDS Integers, Sequences, FiniteSets, TLC

\* JavaScript null / undefined
Null == "null"

SeqsUpTo(S, n) == UNION {[1..k -> S] : k \in 0..n}

NonEmptySeqsUpTo(S, n) == UNION {[1..k -> S] : k \in 1..n}

\* Op applied to the value of v, computed once
Bind(v, Op(_)) == CHOOSE y \in {Op(b) : b \in {v}} : TRUE

(***************************************************************************)
(* PART 1.  Rule evaluation engine                                         *)
(***************************************************************************)

VARIABLES
    rules,              \* the rules of the check, in declared order
    itemState,          \* what the item filters see: [itemPass, authorPass]
    premiseDB,          \* rows of the RulePremise repository
    rulePremiseEntity,  \* per rule: this.rulePremiseEntity (a row or Null)
    initTried,          \* per rule: initialize() has been called
    existingResults,    \* results collected so far in this pass
    nextRule,           \* index of the next rule the caller runs
    cur,                \* index of the rule whose run() is in progress
    pc,                 \* position inside run(): idle / ITEM_FILTER / ...
    res,                \* the RuleResultEntity run() is building
    ret,                \* what the last run() returned or threw
    trace,              \* steps taken by the current run(), in order
    processCalls        \* per rule: number of process() invocations

ruleVars == <<rules, itemState, premiseDB, rulePremiseEntity, initTried,
              existingResults, nextRule, cur, pc, res, ret, trace, processCalls>>

\* Bound: number of rules evaluated in one pass
MaxRules == 2

NoFilter == "none"

\* rule declarations the pass draws from: the name is optional, the premise
\* fields are kind, kind-specific config, authorIs and itemIs
RuleDecls ==
    [name : {"A", "B"}, kind : {"regex"}, config : {"cfg1"},
     authorIs : {NoFilter, "mods"}, itemIs : {NoFilter, "removed"}]
    \cup
    [name : {Null}, kind : {"regex", "author"}, config : {"cfg1"},
     authorIs : {NoFilter}, itemIs : {NoFilter}]

\* Rule.getPremise
getPremise(r) ==
    [kind |-> r.kind, config |-> r.config, authorIs |-> r.authorIs, itemIs |-> r.itemIs]

\* objectHash.sha1: a canonical digest, equal exactly for structurally equal
\* values (record values carry no key order)
sha1(x) == <<"sha1", x>>

\* a hash column that is not set
NoHash == <<>>

\* new RulePremise({kind, config: prem, manager, name}): the hashes the
\* constructor derives from the premise
RulePremiseCtor(prem, name) ==
    [kind |-> prem.kind,
     configHash |-> sha1(prem),
     itemIsConfigHash |-> IF prem.itemIs = NoFilter THEN NoHash ELSE sha1(prem.itemIs),
     authorIsConfigHash |-> IF prem.authorIs = NoFilter THEN NoHash ELSE sha1(prem.authorIs),
     name |-> name]

\* the where-clause of initialize(): a property whose value is undefined puts
\* no condition on the row
MatchesSearch(row, cand) ==
    /\ row.kind = cand.kind
    /\ row.configHash = cand.configHash
    /\ row.itemIsConfigHash = cand.itemIsConfigHash
    /\ row.authorIsConfigHash = cand.authorIsConfigHash
    /\ (cand.name = Null \/ row.name = cand.name)

WithId(cand, id) ==
    [id |-> id, kind |-> cand.kind, configHash |-> cand.configHash,
     itemIsConfigHash |-> cand.itemIsConfigHash,
     authorIsConfigHash |-> cand.authorIsConfigHash, name |-> cand.name]

\* a rulePremiseEntity that is null
NoPremise == [id |-> 0]

\* a boolean | null value
Tri(b) == IF b THEN "true" ELSE "false"

\* new RuleResultEntity({premise}): nothing but the premise is set
NewResult(premise) ==
    [premise |-> premise, triggered |-> Null, result |-> Null, fromCache |-> Null,
     itemIs |-> Null, authorIs |-> Null, data |-> Null]

NoError == [source |-> "none", kind |-> Null, name |-> Null]

NoRet == [status |-> "none", triggered |-> Null, result |-> NewResult(NoPremise),
          err |-> NoError]

\* findResultByPremise(premise, results): the first earlier result whose premise
\* has the same premise hash, or nothing.  A null premise (or a null premise
\* met while scanning) is a property read of null: it either throws or
\* matches nothing.
FirstMatch(premise, results) ==
    LET hits == {i \in DOMAIN results :
                    /\ results[i].premise # NoPremise
                    /\ results[i].premise.configHash = premise.configHash}
    IN IF hits = {} THEN 0 ELSE CHOOSE i \in hits : \A j \in hits : i <= j

findResultByPremise(premise, results) ==
    IF premise = NoPremise
    THEN IF results = <<>> THEN {[t |-> "none"]} ELSE {[t |-> "none"], [t |-> "throw"]}
    ELSE LET m == FirstMatch(premise, results)
             upto == IF m = 0 THEN Len(results) ELSE m - 1
             nullSeen == \E i \in 1..upto : results[i].premise = NoPremise
         IN (IF m = 0 THEN {[t |-> "none"]} ELSE {[t |-> "hit", at |-> m]})
            \cup (IF nullSeen THEN {[t |-> "throw"]} ELSE {})

\* checkItemFilter / checkAuthorFilter: an empty filter passes, a filter that
\* is present is decided by the state of the item and of its author
checkItemFilter(itemIs) == itemIs = NoFilter \/ itemState.itemPass

checkAuthorFilter(authorIs) == authorIs = NoFilter \/ itemState.authorPass

\* the error a failing process() throws: it says nothing about the rule
ProcessError == [source |-> "process", kind |-> Null, name |-> Null]

FilterError == [source |-> "filter", kind |-> Null, name |-> Null]

LookupError == [source |-> "lookup", kind |-> Null, name |-> Null]

RuleInit ==
    /\ rules \in NonEmptySeqsUpTo(RuleDecls, MaxRules)
    /\ itemState \in [itemPass : BOOLEAN, authorPass : BOOLEAN]
    /\ premiseDB = {}
    /\ rulePremiseEntity = [i \in DOMAIN rules |-> NoPremise]
    /\ initTried = [i \in DOMAIN rules |-> FALSE]
    /\ existingResults = <<>>
    /\ nextRule = 1
    /\ cur = 0
    /\ pc = "idle"
    /\ res = NewResult(NoPremise)
    /\ ret = NoRet
    /\ trace = <<>>
    /\ processCalls = [i \in DOMAIN rules |-> 0]

\* Rule.initialize, the lookup and the save succeed
Initialize ==
    /\ pc = "idle"
    /\ nextRule \in DOMAIN rules
    /\ ~initTried[nextRule]
    /\ initTried' = [initTried EXCEPT ![nextRule] = TRUE]
    /\ IF rulePremiseEntity[nextRule] = NoPremise
       THEN LET r == rules[nextRule]
                cand == RulePremiseCtor(getPremise(r), r.name)
                found == {row \in premiseDB : MatchesSearch(row, cand)}
            IN IF found # {}
               THEN /\ \E row \in found :
                         rulePremiseEntity' = [rulePremiseEntity EXCEPT ![nextRule] = row]
                    /\ UNCHANGED premiseDB
               ELSE LET row == WithId(cand, Cardinality(premiseDB) + 1)
                    IN /\ premiseDB' = premiseDB \cup {row}
                       /\ rulePremiseEntity' = [rulePremiseEntity EXCEPT ![nextRule] = row]
       ELSE UNCHANGED <<premiseDB, rulePremiseEntity>>
    /\ UNCHANGED <<rules, itemState, existingResults, nextRule, cur, pc, res, ret,
                   trace, processCalls>>

\* Rule.initialize, findOne or save throws: the catch block drops the error
InitializeDbFails ==
    /\ pc = "idle"
    /\ nextRule \in DOMAIN rules
    /\ ~initTried[nextRule]
    /\ rulePremiseEntity[nextRule] = NoPremise
    /\ initTried' = [initTried EXCEPT ![nextRule] = TRUE]
    /\ UNCHANGED <<rules, itemState, premiseDB, rulePremiseEntity, existingResults,
                   nextRule, cur, pc, res, ret, trace, processCalls>>

\* a run() that returns [triggered, result]
Returned(triggered, result) ==
    [status |-> "returned", triggered |-> triggered, result |-> result, err |-> NoError]

\* a run() that throws err
Thrown(err) ==
    [status |-> "thrown", triggered |-> Null, result |-> NewResult(NoPremise), err |-> err]

\* Rule.run up to its first await: the result entity is created and
\* existingResults is searched for a result of the same premise
RunStart ==
    /\ pc = "idle"
    /\ nextRule \in DOMAIN rules
    /\ initTried[nextRule]
    /\ cur' = nextRule
    /\ res' = NewResult(rulePremiseEntity[nextRule])
    /\ trace' = <<"CACHE_LOOKUP">>
    /\ \E found \in findResultByPremise(rulePremiseEntity[nextRule], existingResults) :
          \/ /\ found.t = "hit"
             /\ ret' = Returned(existingResults[found.at].triggered, existingResults[found.at])
             /\ pc' = "DONE"
          \/ /\ found.t = "none"
             /\ ret' = NoRet
             /\ pc' = "ITEM_FILTER"
          \/ /\ found.t = "throw"
             /\ ret' = Thrown(LookupError)
             /\ pc' = "DONE"
    /\ UNCHANGED <<rules, itemState, premiseDB, rulePremiseEntity, initTried,
                   existingResults, nextRule, processCalls>>

\* where run() goes after a filter gate: it returns on a failed gate
AfterGateNoReturn(passed, nextStep) == nextStep

AfterGate(passed, nextStep) == IF ~passed THEN "DONE" ELSE nextStep

\* Rule.run, checkItemFilter has answered
ItemFilter ==
    /\ pc = "ITEM_FILTER"
    /\ trace' = Append(trace, "ITEM_FILTER")
    /\ LET itemIs == rules[cur].itemIs
           itemPass == checkItemFilter(itemIs)
           withItemIs == IF itemIs # NoFilter
                         THEN [res EXCEPT !.itemIs = Tri(itemPass)]
                         ELSE res
       IN /\ pc' = AfterGate(itemPass, "AUTHOR_FILTER")
          /\ IF ~itemPass
             THEN /\ res' = [withItemIs EXCEPT !.result = "Item did not pass 'itemIs' test"]
                  /\ ret' = Returned(Null, res')
             ELSE /\ res' = withItemIs
                  /\ ret' = ret
    /\ UNCHANGED <<rules, itemState, premiseDB, rulePremiseEntity, initTried,
                   existingResults, nextRule, cur, processCalls>>

\* Rule.run, checkAuthorFilter has answered
AuthorFilter ==
    /\ pc = "AUTHOR_FILTER"
    /\ trace' = Append(trace, "AUTHOR_FILTER")
    /\ LET authorIs == rules[cur].authorIs
           authFilterResult == checkAuthorFilter(authorIs)
           withAuthorIs == IF authorIs # NoFilter
                           THEN [res EXCEPT !.authorIs = Tri(authFilterResult)]
                           ELSE res
       IN /\ pc' = AfterGate(authFilterResult, "PROCESS")
          /\ IF ~authFilterResult
             THEN /\ res' = [withAuthorIs EXCEPT !.result = "author criteria not matched"]
                  /\ ret' = Returned(Null, res')
             ELSE /\ res' = withAuthorIs
                  /\ ret' = ret
    /\ UNCHANGED <<rules, itemState, premiseDB, rulePremiseEntity, initTried,
                   existingResults, nextRule, cur, processCalls>>

\* Rule.run, checkItemFilter or checkAuthorFilter throws: logged and rethrown
FilterThrows ==
    /\ pc \in {"ITEM_FILTER", "AUTHOR_FILTER"}
    /\ trace' = Append(trace, pc)
    /\ ret' = Thrown(FilterError)
    /\ pc' = "DONE"
    /\ UNCHANGED <<rules, itemState, premiseDB, rulePremiseEntity, initTried,
                   existingResults, nextRule, cur, res, processCalls>>

\* the result run() builds from what process() returned
ProcessedResult(r, triggered) ==
    [r EXCEPT !.triggered = Tri(triggered), !.result = "processed",
              !.fromCache = Tri(FALSE), !.data = "data"]

\* Rule.run, process() has returned [triggered, plainRuleResult]
Process ==
    /\ pc = "PROCESS"
    /\ trace' = Append(trace, "PROCESS")
    /\ processCalls' = [processCalls EXCEPT ![cur] = @ + 1]
    /\ \E triggered \in BOOLEAN :
          /\ res' = ProcessedResult(res, triggered)
          /\ ret' = Returned(Tri(triggered), res')
    /\ pc' = "DONE"
    /\ UNCHANGED <<rules, itemState, premiseDB, rulePremiseEntity, initTried,
                   existingResults, nextRule, cur>>

\* what run() throws when process() threw err
ProcessRethrow(rule, err) == err

\* Rule.run, process() throws: logged and rethrown, no second attempt
ProcessThrows ==
    /\ pc = "PROCESS"
    /\ trace' = Append(trace, "PROCESS")
    /\ processCalls' = [processCalls EXCEPT ![cur] = @ + 1]
    /\ ret' = Thrown(ProcessRethrow(rules[cur], ProcessError))
    /\ pc' = "DONE"
    /\ UNCHANGED <<rules, itemState, premiseDB, rulePremiseEntity, initTried,
                   existingResults, nextRule, cur, res>>

\* the caller of run(): a returned result joins the results handed to the
\* rules that follow
Collect ==
    /\ pc = "DONE"
    /\ ret.status = "returned"
    /\ existingResults' = Append(existingResults, ret.result)
    /\ nextRule' = nextRule + 1
    /\ pc' = "idle"
    /\ UNCHANGED <<rules, itemState, premiseDB, rulePremiseEntity, initTried,
                   cur, res, ret, trace, processCalls>>

\* the caller of run() when run() threw: nothing is stored; the caller goes
\* on with the next rule or gives the pass up
CollectThrown ==
    /\ pc = "DONE"
    /\ ret.status = "thrown"
    /\ \/ nextRule' = nextRule + 1
       \/ nextRule' = Len(rules) + 1
    /\ pc' = "idle"
    /\ UNCHANGED <<rules, itemState, premiseDB, rulePremiseEntity, initTried,
                   existingResults, cur, res, ret, trace, processCalls>>

RuleNext ==
    \/ Initialize
    \/ InitializeDbFails
    \/ RunStart
    \/ ItemFilter
    \/ AuthorFilter
    \/ FilterThrows
    \/ Process
    \/ ProcessThrows
    \/ Collect
    \/ CollectThrown

(***************************************************************************)
(* Claims about the rule evaluation engine                                 *)
(***************************************************************************)

\* the first two rules of the pass have one premise and two names, both have
\* a premise entity, and the item passes their filters
TwinRules ==
    /\ Len(rules) >= 2
    /\ getPremise(rules[1]) = getPremise(rules[2])
    /\ rules[1].name # rules[2].name
    /\ rulePremiseEntity[1] # NoPremise
    /\ rulePremiseEntity[2] # NoPremise
    /\ checkItemFilter(rules[1].itemIs)
    /\ checkAuthorFilter(rules[1].authorIs)

\* the run of the second rule has returned, with the first rule's result in
\* existingResults
SecondReturned ==
    /\ pc = "DONE"
    /\ cur = 2
    /\ ret.status = "returned"
    /\ Len(existingResults) = 1

\* C1: two rules with one premise and different names, run one after the
\* other over one item: process is invoked exactly once in total and the
\* result the second run returns has fromCache = true
C1_OnceAndFromCache ==
    (TwinRules /\ SecondReturned) =>
        /\ processCalls[1] + processCalls[2] = 1
        /\ ret.result.fromCache = Tri(TRUE)

Before(step, i) == \E j \in 1..(i - 1) : trace[j] = step

\* C2: in every run the cache lookup comes after the item filter and the
\* author filter have passed, and a run whose item fails a filter gate has
\* evaluated that gate before it returns
C2_FiltersBeforeLookup ==
    /\ \A i \in DOMAIN trace :
          trace[i] = "CACHE_LOOKUP" =>
              Before("ITEM_FILTER", i) /\ Before("AUTHOR_FILTER", i)
    /\ (pc = "DONE" /\ ret.status = "returned"
            /\ ~checkItemFilter(rules[cur].itemIs)) =>
          \E i \in DOMAIN trace : trace[i] = "ITEM_FILTER"

\* the lookup found nothing, so run() went on to the filter gates
NoCachedResult == Len(trace) >= 2 /\ trace[1] = "CACHE_LOOKUP"

ReasonSet == ret.result.result # Null

\* C3: with no cached result, a failed item filter, or a passed item filter
\* and a failed author filter, makes run() return triggered = null with a
\* reason; the author filter is reached only after the item filter passed
\* and process only after both passed
C3_SkippedAtGate ==
    /\ (pc = "AUTHOR_FILTER") => checkItemFilter(rules[cur].itemIs)
    /\ (pc = "PROCESS") =>
          checkItemFilter(rules[cur].itemIs) /\ checkAuthorFilter(rules[cur].authorIs)
    /\ (pc = "DONE" /\ ret.status = "returned" /\ NoCachedResult) =>
          /\ ~checkItemFilter(rules[cur].itemIs) =>
                /\ ret.triggered = Null
                /\ ReasonSet
                /\ trace = <<"CACHE_LOOKUP", "ITEM_FILTER">>
                /\ processCalls[cur] = 0
          /\ (checkItemFilter(rules[cur].itemIs)
                /\ ~checkAuthorFilter(rules[cur].authorIs)) =>
                /\ ret.triggered = Null
                /\ ReasonSet
                /\ trace = <<"CACHE_LOOKUP", "ITEM_FILTER", "AUTHOR_FILTER">>
                /\ processCalls[cur] = 0

\* a run that passed the item filter and was skipped by the author filter
C3_Witness ==
    /\ pc = "DONE"
    /\ ret.status = "returned"
    /\ trace = <<"CACHE_LOOKUP", "ITEM_FILTER", "AUTHOR_FILTER">>
    /\ rules[cur].itemIs # NoFilter
    /\ ret.triggered = Null
    /\ ret.result.result = "author criteria not matched"

LastStep == trace[Len(trace)]

\* C4: a returned triggered value is null only if a filter gate failed in
\* that run; after process ran it is the boolean process returned and the
\* result has fromCache = false; a result from the cache lookup is never null
C4_TriStateOnlyAtGates ==
    (pc = "DONE" /\ ret.status = "returned") =>
        /\ ret.triggered = Null => LastStep \in {"ITEM_FILTER", "AUTHOR_FILTER"}
        /\ LastStep = "PROCESS" =>
              /\ ret.triggered \in {Tri(TRUE), Tri(FALSE)}
              /\ ret.triggered = ret.result.triggered
              /\ ret.result.fromCache = Tri(FALSE)
        /\ LastStep = "CACHE_LOOKUP" => ret.triggered # Null

\* capitalize(kind) [- name]
getRuleUniqueName(r) == IF r.name = Null THEN <<r.kind>> ELSE <<r.kind, r.name>>

\* C5: a failing process is invoked once, run() returns no result, and the
\* failure that reaches the caller carries the rule's kind and name
C5_FailureCarriesRule ==
    (pc = "DONE" /\ ret.status = "thrown" /\ ret.err.source = "process") =>
        /\ processCalls[cur] = 1
        /\ ret.result = NewResult(NoPremise)
        /\ ret.err.kind = rules[cur].kind
        /\ ret.err.name = rules[cur].name

\* C39: once initialize() has resolved the rule holds a stored premise, and a
\* run in progress never builds its result on an absent premise (a failing
\* findOne or save would have stopped initialize() with an error instead)
C39_PremiseSetAfterInitialize ==
    /\ \A i \in DOMAIN rules : initTried[i] => rulePremiseEntity[i] # NoPremise
    /\ pc # "idle" => res.premise # NoPremise

(***************************************************************************)
(* PART 2.  Named rules and actions (ConfigBuilder.ts)                     *)
(***************************************************************************)

VARIABLES
    namedRules,     \* Map<string, RuleConfigObject>, in insertion order
    namedActions,   \* Map<string, ActionConfigObject>, in insertion order
    lastCall        \* the last extract call: its input, the registry before, its error

regVars == <<namedRules, namedActions, lastCall>>

\* the state of the builder calls of PART 3
VARIABLES
    doc,        \* the SubredditConfigData object handed to the builder
    bot,        \* the defaults the caller hands to parseToStructured
    calls,      \* number of builder calls made on doc
    cfgOut,     \* the last call: what it returned or threw, what it fetched
    cfgPrev     \* the call before the last

cfgVars == <<doc, bot, calls, cfgOut, cfgPrev>>

\* the state of the resource cache of PART 5
VARIABLES
    workload,   \* the function of SubredditResources the callers use
    manager,    \* the SubredditResourcesManager: [enabled, authorTTL]
    resources,  \* manager.resources: name -> the fields of a SubredditResources
    cache,      \* the entries of the memory-cache module, shared by all instances
    lapsed,     \* the keys whose entry ran out of time and was not stored again
    pending,    \* the calls suspended at their await
    finished,   \* the last two calls that have returned or thrown, in order
    begun       \* number of calls begun

resVars == <<workload, manager, resources, cache, lapsed, pending, finished, begun>>

\* the state of the premise entities of PART 6 and of the App of PART 7
VARIABLES
    premises,   \* two premises and the ActionPremise entities built from them
    app         \* the App during buildManagers: its lists and its position

\* the state of the CommentAction of PART 8 and of the App loops of PART 9
VARIABLES
    commentRun, \* a CommentAction, the item it is run on, the calls it has made
    runner      \* the App during runManagers: its counters, flags and loops

lateVars == <<commentRun, runner>>

sideVars == <<premises, app, lateVars>>

hostVars == <<resVars, sideVars>>

\* Bound: length of the list handed to one extract call
MaxListLen == 2

\* A string is a tuple of characters.  The characters of the model:
LowerChar(ch) ==
    CASE ch = "S" -> "s"
      [] ch = "P" -> "p"
      [] ch = "M" -> "m"
      [] OTHER -> ch

\* String.prototype.toLowerCase / toLocaleLowerCase
toLowerCase(str) == [i \in DOMAIN str |-> LowerChar(str[i])]

\* normalizeName: the key a name is registered under
normalizeName(name) == toLowerCase(name)

\* a name property that is undefined
NoName == <<>>

\* a property that is undefined
Undefined == [f |-> "undefined"]

\* a JavaScript Map: a list of [k, v] entries in insertion order
EmptyMap == <<>>

MapHas(map, key) == \E i \in DOMAIN map : map[i].k = key

MapGet(map, key) == map[CHOOSE i \in DOMAIN map : map[i].k = key].v

MapSet(map, key, val) ==
    IF MapHas(map, key)
    THEN [i \in DOMAIN map |-> IF map[i].k = key THEN [k |-> key, v |-> val] ELSE map[i]]
    ELSE Append(map, [k |-> key, v |-> val])

MapValues(map) == [i \in DOMAIN map |-> map[i].v]

MapKeys(map) == {map[i].k : i \in DOMAIN map}

\* no error
NoErr == [e |-> "none"]

\* the entries of a rules or actions array: a string, an inline rule, a rule
\* set, an inline action
StrRef(str) == [t |-> "string", s |-> str]

RuleObj(name, kind, config, authorIs, itemIs, include, exclude) ==
    [t |-> "rule", name |-> name, kind |-> kind, config |-> config,
     authorIs |-> authorIs, itemIs |-> itemIs, include |-> include, exclude |-> exclude]

PlainRule(name, config) ==
    RuleObj(name, "regex", config, Undefined, Undefined, Undefined, Undefined)

RuleSetObj(condition, setRules) == [t |-> "set", condition |-> condition, rules |-> setRules]

ActionObj(name, kind, config, authorIs, itemIs) ==
    [t |-> "action", name |-> name, kind |-> kind, config |-> config,
     authorIs |-> authorIs, itemIs |-> itemIs]

PlainAction(name, config) == ActionObj(name, "remove", config, Undefined, Undefined)

\* const {name: n, ...rest} = entity
WithoutName(entity) == [entity EXCEPT !.name = NoName]

\* a registered entity and a new one of the same key that are not deep-equal:
\* the names are left out of the comparison
ConflictsComparingNames(existing, entity) == existing # entity

Conflicts(existing, entity) == WithoutName(existing) # WithoutName(entity)

RuleConflict(name) == [e |-> "Rule names must be unique", name |-> name]

ActionConflict(name) == [e |-> "Actions names must be unique", name |-> name]

\* the loop over rulesToAdd of extractNamedRules
RECURSIVE AddNamedRules(_, _)
AddNamedRules(rulesToAdd, map) ==
    IF rulesToAdd = <<>>
    THEN [map |-> map, err |-> NoErr]
    ELSE LET rule == Head(rulesToAdd)
             normalName == normalizeName(rule.name)
         IN IF MapHas(map, normalName)
            THEN IF Conflicts(MapGet(map, normalName), rule)
                 THEN [map |-> map, err |-> RuleConflict(rule.name)]
                 ELSE AddNamedRules(Tail(rulesToAdd), map)
            ELSE AddNamedRules(Tail(rulesToAdd), MapSet(map, normalName, rule))

\* extractNamedRules without the call on the rules of a rule set
RECURSIVE extractNamedRulesTopLevel(_, _)
extractNamedRulesTopLevel(rs, map) ==
    IF rs = <<>>
    THEN [map |-> map, err |-> NoErr]
    ELSE LET r == Head(rs)
             rulesToAdd == IF r.t = "rule" /\ r.name # NoName THEN <<r>> ELSE <<>>
             added == AddNamedRules(rulesToAdd, map)
         IN IF added.err # NoErr
            THEN added
            ELSE extractNamedRulesTopLevel(Tail(rs), added.map)

\* extractNamedRules(rules, namedRules): the map as it is when the call ends,
\* and the error it throws, if any
RECURSIVE extractNamedRules(_, _)
extractNamedRules(rs, map) ==
    IF rs = <<>>
    THEN [map |-> map, err |-> NoErr]
    ELSE LET r == Head(rs)
             nestedNamed == IF r.t = "set"
                            THEN extractNamedRules(r.rules, EmptyMap)
                            ELSE [map |-> EmptyMap, err |-> NoErr]
             rulesToAdd == CASE r.t = "rule" -> IF r.name # NoName THEN <<r>> ELSE <<>>
                             [] r.t = "set" -> MapValues(nestedNamed.map)
                             [] OTHER -> <<>>
         IN IF nestedNamed.err # NoErr
            THEN [map |-> map, err |-> nestedNamed.err]
            ELSE LET added == AddNamedRules(rulesToAdd, map)
                 IN IF added.err # NoErr
                    THEN added
                    ELSE extractNamedRules(Tail(rs), added.map)

\* extractNamedActions(actions, namedActions)
RECURSIVE extractNamedActions(_, _)
extractNamedActions(as, map) ==
    IF as = <<>>
    THEN [map |-> map, err |-> NoErr]
    ELSE LET a == Head(as)
         IN IF a.t = "action" /\ a.name # NoName
            THEN LET normalName == toLowerCase(a.name)
                 IN IF MapHas(map, normalName)
                    THEN IF Conflicts(MapGet(map, normalName), a)
                         THEN [map |-> map, err |-> ActionConflict(a.name)]
                         ELSE extractNamedActions(Tail(as), map)
                    ELSE extractNamedActions(Tail(as), MapSet(map, normalName, a))
            ELSE extractNamedActions(Tail(as), map)

\* names of the model: two that differ only by case, and a third
NameSp == <<"S", "p">>

Namesp == <<"s", "p">>

NameOther == <<"o">>

\* entries of the rules arrays handed to extractNamedRules
RuleElems ==
    { PlainRule(NameSp, "cfg1"), PlainRule(Namesp, "cfg1"), PlainRule(Namesp, "cfg2"),
      PlainRule(NoName, "cfg1"), StrRef(Namesp),
      RuleSetObj("OR", <<PlainRule(Namesp, "cfg2"), PlainRule(NameOther, "cfg1")>>),
      RuleSetObj("AND", <<StrRef(NameOther), PlainRule(NameSp, "cfg2")>>),
      RuleSetObj("OR", <<RuleSetObj("AND", <<PlainRule(NameOther, "cfg2")>>)>>) }

\* entries of the actions arrays handed to extractNamedActions
ActionElems ==
    { PlainAction(NameSp, "cfg1"), PlainAction(Namesp, "cfg1"), PlainAction(Namesp, "cfg2"),
      PlainAction(NoName, "cfg1"), StrRef(Namesp) }

NoCall == [op |-> "none", input |-> <<>>, pre |-> EmptyMap, err |-> NoErr]

\* the record kept of a call: its error, and for a call with one entry also
\* the entry and the registry as it was before the call
CallRecord(op, input, pre, err) ==
    IF Len(input) = 1
    THEN [op |-> op, input |-> input, pre |-> pre, err |-> err]
    ELSE [op |-> op, input |-> <<>>, pre |-> EmptyMap, err |-> err]

RegInit ==
    /\ namedRules = EmptyMap
    /\ namedActions = EmptyMap
    /\ lastCall = NoCall

\* a call extractNamedRules(rs, namedRules) on the shared registry
ExtractNamedRulesCall ==
    \E rs \in NonEmptySeqsUpTo(RuleElems, MaxListLen) :
        LET out == extractNamedRules(rs, namedRules)
        IN /\ namedRules' = out.map
           /\ lastCall' = CallRecord("rules", rs, namedRules, out.err)
           /\ UNCHANGED namedActions
           /\ UNCHANGED <<hostVars, ruleVars, cfgVars>>

\* a call extractNamedActions(as, namedActions) on the shared registry
ExtractNamedActionsCall ==
    \E as \in NonEmptySeqsUpTo(ActionElems, MaxListLen) :
        LET out == extractNamedActions(as, namedActions)
        IN /\ namedActions' = out.map
           /\ lastCall' = CallRecord("actions", as, namedActions, out.err)
           /\ UNCHANGED namedRules
           /\ UNCHANGED <<hostVars, ruleVars, cfgVars>>

RegNext ==
    \/ ExtractNamedRulesCall
    \/ ExtractNamedActionsCall

(***************************************************************************)
(* Claims about the registry of named rules and actions                    *)
(***************************************************************************)

Registry == IF lastCall.op = "rules" THEN namedRules ELSE namedActions

\* the last call registered one named entity whose key was already taken
ReRegistration ==
    /\ lastCall.op # "none"
    /\ Len(lastCall.input) = 1
    /\ lastCall.input[1].t \in {"rule", "action"}
    /\ lastCall.input[1].name # NoName
    /\ MapHas(lastCall.pre, toLowerCase(lastCall.input[1].name))

SameButName(a, b) == WithoutName(a) = WithoutName(b)

NoCaseTwins(map) ==
    \A i, j \in DOMAIN map :
        i # j => /\ map[i].k # map[j].k
                 /\ toLowerCase(map[i].v.name) # toLowerCase(map[j].v.name)

\* C6: registering under a name whose lower-cased form is taken succeeds and
\* changes nothing when the entities are equal but for the name, fails with a
\* conflict error naming the entity otherwise; no two entries of a registry
\* have names that differ only by case
C6_RegistryConflictRule ==
    /\ ReRegistration =>
          LET entity == lastCall.input[1]
              existing == MapGet(lastCall.pre, toLowerCase(entity.name))
          IN /\ Registry = lastCall.pre
             /\ SameButName(existing, entity) => lastCall.err = NoErr
             /\ ~SameButName(existing, entity) =>
                   /\ lastCall.err # NoErr
                   /\ lastCall.err.name = entity.name
    /\ NoCaseTwins(namedRules)
    /\ NoCaseTwins(namedActions)

\* "sp" accepted under the key of an equal rule registered as "Sp"
C6_Witness ==
    /\ ReRegistration
    /\ lastCall.op = "rules"
    /\ lastCall.err = NoErr
    /\ lastCall.input[1].name # MapGet(lastCall.pre, toLowerCase(lastCall.input[1].name)).name
    /\ Len(namedRules) >= 2

\* the inline rules of a list that carry a name, those of its rule sets
\* included, in the order of the document
RECURSIVE NamedRulesIn(_)
NamedRulesIn(rs) ==
    IF rs = <<>>
    THEN <<>>
    ELSE LET r == Head(rs)
             here == CASE r.t = "rule" -> IF r.name # NoName THEN <<r>> ELSE <<>>
                       [] r.t = "set" -> NamedRulesIn(r.rules)
                       [] OTHER -> <<>>
         IN here \o NamedRulesIn(Tail(rs))

\* the first rule of a list whose lower-cased name is the key
FirstNamed(named, key) ==
    named[CHOOSE i \in DOMAIN named :
             /\ toLowerCase(named[i].name) = key
             /\ \A j \in 1..(i - 1) : toLowerCase(named[j].name) # key]

\* the last call was an extractNamedRules that returned
RulesExtracted ==
    /\ lastCall.op = "rules"
    /\ Len(lastCall.input) = 1
    /\ lastCall.err = NoErr

\* C29: after extractNamedRules has returned, the keys of the registry are
\* the keys it had plus the lower-cased names of the named inline rules of
\* the list, at the top or in a rule set at any depth; string references
\* and rules without a name add nothing; every key maps to the first rule
\* registered under it
C29_RegistryKeys ==
    /\ RulesExtracted =>
          LET named == NamedRulesIn(lastCall.input)
              names == {toLowerCase(named[i].name) : i \in DOMAIN named}
          IN /\ MapKeys(namedRules) = MapKeys(lastCall.pre) \cup names
             /\ \A key \in MapKeys(namedRules) :
                   MapGet(namedRules, key) =
                       IF MapHas(lastCall.pre, key)
                       THEN MapGet(lastCall.pre, key)
                       ELSE FirstNamed(named, key)
    /\ \A i \in DOMAIN namedRules :
          /\ namedRules[i].v.t = "rule"
          /\ namedRules[i].v.name # NoName
          /\ namedRules[i].k = toLowerCase(namedRules[i].v.name)

\* a rule set within a rule set gave the registry, which held a rule
\* already, the rule named in it
C29_Witness ==
    /\ RulesExtracted
    /\ lastCall.input[1] = RuleSetObj("OR", <<RuleSetObj("AND", <<PlainRule(NameOther, "cfg2")>>)>>)
    /\ lastCall.pre # EmptyMap
    /\ ~MapHas(lastCall.pre, NameOther)
    /\ MapGet(namedRules, NameOther) = PlainRule(NameOther, "cfg2")
    /\ Len(namedRules) = Len(lastCall.pre) + 1

(***************************************************************************)
(* PART 3.  Hydration of a document (ConfigBuilder.hydrateConfig)          *)
(***************************************************************************)

\* Bound: number of builder calls made on one document object
MaxCalls == 2

\* an array-valued property that is present
Arr(items) == [f |-> "array", items |-> items]

\* val ?? [] for an array-valued property
OrEmpty(prop) == IF prop = Undefined THEN <<>> ELSE prop.items

\* an include descriptor {path}
IncludeObj(path) == [t |-> "include", path |-> path]

RunObj(name, checks, authorIs, itemIs, filterCriteriaDefaults, postFail, postTrigger) ==
    [t |-> "run", name |-> name, checks |-> checks, authorIs |-> authorIs,
     itemIs |-> itemIs, filterCriteriaDefaults |-> filterCriteriaDefaults,
     postFail |-> postFail, postTrigger |-> postTrigger]

CheckObj(name, checkRules, actions, authorIs, itemIs, postFail, postTrigger) ==
    [t |-> "check", name |-> name, rules |-> checkRules, actions |-> actions,
     authorIs |-> authorIs, itemIs |-> itemIs,
     postFail |-> postFail, postTrigger |-> postTrigger]

DocObj(runs, checks, filterCriteriaDefaults) ==
    [runs |-> runs, checks |-> checks, filterCriteriaDefaults |-> filterCriteriaDefaults]

\* {name: 'Run1', checks: checks}
Run1Name == <<"R", "u", "n", "1">>

Run1(checks) ==
    RunObj(Run1Name, checks, Undefined, Undefined, Undefined, Undefined, Undefined)

\* parseUrlContext: a string is a fragment reference when it starts with the
\* url: or the wiki: prefix
parseUrlContext(str) == Len(str) > 0 /\ str[1] \in {"url:", "wiki:"}

\* errors: what was thrown, the 1-based positions it names (0: none), its cause
Err(e, runIndex, checkIndex, ruleIndex, cause) ==
    [e |-> e, run |-> runIndex, check |-> checkIndex, rule |-> ruleIndex, cause |-> cause]

BothChecksAndRuns ==
    Err("cannot contain both 'checks' and 'runs' at top-level", 0, 0, 0, NoErr)

\* the remote fragments of the model: what a fetch of each path gives
WikiRules == <<"wiki:", "r", "s">>

WikiRule == <<"wiki:", "r">>

WikiCheck == <<"wiki:", "c">>

WikiRun == <<"wiki:", "n">>

UrlGone == <<"url:", "g">>

WikiNotCheck == <<"wiki:", "x">>

WikiAction == <<"wiki:", "a">>

FetchedCheck ==
    CheckObj(<<"f">>, Arr(<<PlainRule(NameOther, "cfg1"), StrRef(WikiRule)>>), Undefined,
             Undefined, Undefined, Undefined, Undefined)

Remote(path) ==
    CASE path = WikiRules -> [ok |-> TRUE, isArray |-> TRUE,
                              data |-> <<PlainRule(Namesp, "cfg1"), StrRef(NameOther)>>]
      [] path = WikiRule -> [ok |-> TRUE, isArray |-> FALSE,
                             data |-> <<PlainRule(NameOther, "cfg1")>>]
      [] path = WikiCheck -> [ok |-> TRUE, isArray |-> FALSE, data |-> <<FetchedCheck>>]
      [] path = WikiRun -> [ok |-> TRUE, isArray |-> TRUE,
                            data |-> <<Run1(<<FetchedCheck>>), Run1(<<StrRef(WikiCheck)>>)>>]
      [] path = WikiNotCheck -> [ok |-> TRUE, isArray |-> FALSE,
                                 data |-> <<PlainRule(NoName, "cfg1")>>]
      [] path = WikiAction -> [ok |-> TRUE, isArray |-> FALSE,
                               data |-> <<PlainAction(NoName, "cfg1")>>]
      [] OTHER -> [ok |-> FALSE, isArray |-> FALSE, data |-> <<>>]

\* validateJson(data, runSchema | checkSchema): the object has the shape the
\* schema describes
ValidFor(schema, obj) == obj.t = schema

\* resource.getConfigFragment(includes, validateFunc): fetch, parse, then
\* validateFunc(data, true); schema "none" stands for no validateFunc;
\* fetched lists the fetch made, with its path and whether the call returned;
\* validated lists the second argument of every call of validateFunc
getConfigFragment(path, schema) ==
    LET got == Remote(path)
    IN IF ~got.ok
       THEN [vals |-> <<>>, err |-> Err("fetch failed", 0, 0, 0, NoErr),
             fetched |-> <<[path |-> path, ok |-> FALSE]>>, validated |-> <<>>]
       ELSE IF schema # "none" /\ \E i \in DOMAIN got.data : ~ValidFor(schema, got.data[i])
            THEN [vals |-> <<>>, err |-> Err("Config schema validity failure", 0, 0, 0, NoErr),
                  fetched |-> <<[path |-> path, ok |-> FALSE]>>, validated |-> <<TRUE>>]
            ELSE [vals |-> got.data, err |-> NoErr,
                  fetched |-> <<[path |-> path, ok |-> TRUE]>>,
                  validated |-> IF schema # "none" THEN <<TRUE>> ELSE <<>>]

\* Array.isArray(val)
IsArray(val) == "f" \in DOMAIN val /\ val.f = "array"

\* the value in a list of its own, an array included
LiteralListWrapped(val) == <<val>>

\* what hydrateConfigFragment returns when includes is undefined: val when
\* it is an array, else [val]
LiteralList(val) == IF IsArray(val) THEN val.items ELSE <<val>>

\* hydrateConfigFragment(val, resource, validateFunc): the list it resolves
\* to, the error it throws, the fetches it made, the calls of validateFunc
hydrateConfigFragment(val, schema) ==
    IF IsArray(val)
    THEN [vals |-> LiteralList(val), err |-> NoErr, fetched |-> <<>>, validated |-> <<>>]
    ELSE IF val.t = "include" /\ ~parseUrlContext(val.path)
    THEN [vals |-> <<>>, fetched |-> <<>>, validated |-> <<>>,
          err |-> Err("Could not detect Config Fragment path as a valid URL Resource",
                      0, 0, 0, NoErr)]
    ELSE IF val.t = "include"
         THEN getConfigFragment(val.path, schema)
         ELSE IF val.t = "string" /\ parseUrlContext(val.s)
              THEN getConfigFragment(val.s, schema)
              ELSE [vals |-> LiteralList(val), err |-> NoErr, fetched |-> <<>>,
                    validated |-> <<>>]

\* val is part of the document itself, not the content of a fetched fragment
IsLiteral(val) ==
    ~(val.t = "include" \/ (val.t = "string" /\ parseUrlContext(val.s)))

\* the loop over hydratedRuleOrSet.rules with a rule that cannot be fetched
\* left out
RECURSIVE HydrateRuleSetRulesSkipping(_)
HydrateRuleSetRulesSkipping(rs) ==
    IF rs = <<>>
    THEN [out |-> <<>>, err |-> NoErr, fetched |-> <<>>]
    ELSE Bind(hydrateConfigFragment(Head(rs), "none"), LAMBDA frag :
           Bind(HydrateRuleSetRulesSkipping(Tail(rs)), LAMBDA rest :
             [out |-> frag.vals \o rest.out, err |-> rest.err,
              fetched |-> frag.fetched \o rest.fetched]))

\* the loop over hydratedRuleOrSet.rules: no try around the fetch
RECURSIVE HydrateRuleSetRules(_)
HydrateRuleSetRules(rs) ==
    IF rs = <<>>
    THEN [out |-> <<>>, err |-> NoErr, fetched |-> <<>>]
    ELSE Bind(hydrateConfigFragment(Head(rs), "none"), LAMBDA frag :
           IF frag.err # NoErr
           THEN [out |-> <<>>, err |-> frag.err, fetched |-> frag.fetched]
           ELSE Bind(HydrateRuleSetRules(Tail(rs)), LAMBDA rest :
                  [out |-> frag.vals \o rest.out, err |-> rest.err,
                   fetched |-> frag.fetched \o rest.fetched]))

\* one entry of hydratedRuleOrSetArr: a rule set gets its rules replaced, in
\* place, by their hydrated form
HydrateRuleOrSet(h) ==
    IF h.t = "set"
    THEN Bind(HydrateRuleSetRules(h.rules), LAMBDA inner :
           [val |-> [h EXCEPT !.rules = inner.out], err |-> inner.err,
            fetched |-> inner.fetched])
    ELSE [val |-> h, err |-> NoErr, fetched |-> <<>>]

\* the loop over hydratedRuleOrSetArr; n counts the entries done (ruleIndex++)
RECURSIVE HydrateRuleOrSetArr(_)
HydrateRuleOrSetArr(vals) ==
    IF vals = <<>>
    THEN [out |-> <<>>, err |-> NoErr, fetched |-> <<>>, n |-> 0]
    ELSE Bind(HydrateRuleOrSet(Head(vals)), LAMBDA one :
           IF one.err # NoErr
           THEN [out |-> <<>>, err |-> one.err, fetched |-> one.fetched, n |-> 0]
           ELSE Bind(HydrateRuleOrSetArr(Tail(vals)), LAMBDA rest :
                  [out |-> <<one.val>> \o rest.out, err |-> rest.err,
                   fetched |-> one.fetched \o rest.fetched, n |-> 1 + rest.n]))

RuleFragmentError(ruleIndex, checkIndex, cause) ==
    Err("Rule Config Fragment could not be fetched", 0, checkIndex, ruleIndex, cause)

\* the loop over the rules of a check with the rules of a fetched fragment
\* put behind the rules that follow the reference
RECURSIVE HydrateRulesFetchedLast(_, _, _)
HydrateRulesFetchedLast(rs, ruleIndex, checkIndex) ==
    IF rs = <<>>
    THEN [out |-> <<>>, orig |-> <<>>, err |-> NoErr, fetched |-> <<>>]
    ELSE Bind(hydrateConfigFragment(Head(rs), "none"), LAMBDA frag :
           IF frag.err # NoErr
           THEN [out |-> <<>>, orig |-> rs, fetched |-> frag.fetched,
                 err |-> RuleFragmentError(ruleIndex, checkIndex, frag.err)]
           ELSE Bind(HydrateRuleOrSetArr(frag.vals), LAMBDA done :
                  IF done.err # NoErr
                  THEN [out |-> <<>>, orig |-> rs, err |-> done.err,
                        fetched |-> frag.fetched \o done.fetched]
                  ELSE Bind(HydrateRulesFetchedLast(Tail(rs), ruleIndex + done.n, checkIndex),
                            LAMBDA rest :
                         [out |-> IF IsLiteral(Head(rs))
                                  THEN done.out \o rest.out
                                  ELSE rest.out \o done.out,
                          orig |-> <<IF IsLiteral(Head(rs)) THEN done.out[1] ELSE Head(rs)>>
                                   \o rest.orig,
                          err |-> rest.err,
                          fetched |-> frag.fetched \o done.fetched \o rest.fetched])))

\* the loop over the rules of a check.  out: the hydrated rules; orig: the
\* rules array of the input as the loop leaves it
RECURSIVE HydrateRules(_, _, _)
HydrateRules(rs, ruleIndex, checkIndex) ==
    IF rs = <<>>
    THEN [out |-> <<>>, orig |-> <<>>, err |-> NoErr, fetched |-> <<>>]
    ELSE Bind(hydrateConfigFragment(Head(rs), "none"), LAMBDA frag :
           IF frag.err # NoErr
           THEN [out |-> <<>>, orig |-> rs, fetched |-> frag.fetched,
                 err |-> RuleFragmentError(ruleIndex, checkIndex, frag.err)]
           ELSE Bind(HydrateRuleOrSetArr(frag.vals), LAMBDA done :
                  IF done.err # NoErr
                  THEN [out |-> <<>>, orig |-> rs, err |-> done.err,
                        fetched |-> frag.fetched \o done.fetched]
                  ELSE Bind(HydrateRules(Tail(rs), ruleIndex + done.n, checkIndex),
                            LAMBDA rest :
                         [out |-> done.out \o rest.out,
                          orig |-> <<IF IsLiteral(Head(rs)) THEN done.out[1] ELSE Head(rs)>>
                                   \o rest.orig,
                          err |-> rest.err,
                          fetched |-> frag.fetched \o done.fetched \o rest.fetched])))

ActionFragmentError(actionIndex, checkIndex, cause) ==
    Err("Action Config Fragment could not be fetched", 0, checkIndex, actionIndex, cause)

\* the loop over the actions of a check
RECURSIVE HydrateActions(_, _, _)
HydrateActions(as, actionIndex, checkIndex) ==
    IF as = <<>>
    THEN [out |-> <<>>, err |-> NoErr, fetched |-> <<>>]
    ELSE Bind(hydrateConfigFragment(Head(as), "none"), LAMBDA frag :
           IF frag.err # NoErr
           THEN [out |-> <<>>, fetched |-> frag.fetched,
                 err |-> ActionFragmentError(actionIndex, checkIndex, frag.err)]
           ELSE Bind(HydrateActions(Tail(as), actionIndex + Len(frag.vals), checkIndex),
                     LAMBDA rest :
                  [out |-> frag.vals \o rest.out, err |-> rest.err,
                   fetched |-> frag.fetched \o rest.fetched]))

NothingHydrated == [out |-> <<>>, orig |-> <<>>, err |-> NoErr, fetched |-> <<>>]

\* one hydrated check with its actions fetched before its rules
HydrateCheckDataActionsFirst(c, checkIndex) ==
    Bind(IF c.actions # Undefined
         THEN HydrateActions(c.actions.items, 1, checkIndex)
         ELSE [out |-> <<>>, err |-> NoErr, fetched |-> <<>>], LAMBDA ha :
      Bind(IF c.rules # Undefined /\ ha.err = NoErr
           THEN HydrateRules(c.rules.items, 1, checkIndex)
           ELSE NothingHydrated, LAMBDA hr :
        [out |-> [c EXCEPT !.rules = IF c.rules # Undefined THEN Arr(hr.out)
                                     ELSE Undefined,
                           !.actions = IF c.actions # Undefined THEN Arr(ha.out)
                                       ELSE Undefined],
         orig |-> IF c.rules # Undefined THEN [c EXCEPT !.rules = Arr(hr.orig)] ELSE c,
         err |-> IF ha.err # NoErr THEN ha.err ELSE hr.err,
         fetched |-> ha.fetched \o hr.fetched]))

\* one hydrated check: its rules, then its actions
HydrateCheckData(c, checkIndex) ==
    Bind(IF c.rules # Undefined
         THEN HydrateRules(c.rules.items, 1, checkIndex)
         ELSE NothingHydrated, LAMBDA hr :
      Bind(IF c.actions # Undefined /\ hr.err = NoErr
           THEN HydrateActions(c.actions.items, 1, checkIndex)
           ELSE [out |-> <<>>, err |-> NoErr, fetched |-> <<>>], LAMBDA ha :
        [out |-> [c EXCEPT !.rules = IF c.rules # Undefined THEN Arr(hr.out)
                                     ELSE Undefined,
                           !.actions = IF c.actions # Undefined THEN Arr(ha.out)
                                       ELSE Undefined],
         orig |-> IF c.rules # Undefined THEN [c EXCEPT !.rules = Arr(hr.orig)] ELSE c,
         err |-> IF hr.err # NoErr THEN hr.err ELSE ha.err,
         fetched |-> hr.fetched \o ha.fetched]))

CheckFragmentError(checkIndex, runIndex, cause) ==
    Err("Could not fetch or validate Check Config Fragment", runIndex, checkIndex, 0, cause)

CheckNotRecognized(checkIndex, runIndex) ==
    Err("Check was not in a recognized include format", runIndex, checkIndex, 0, NoErr)

\* the loop over hydratedCheckDataArr
RECURSIVE HydrateCheckDataArr(_, _, _)
HydrateCheckDataArr(vals, checkIndex, runIndex) ==
    IF vals = <<>>
    THEN NothingHydrated
    ELSE IF Head(vals).t = "string"
         THEN [out |-> <<>>, orig |-> vals, fetched |-> <<>>,
               err |-> CheckNotRecognized(checkIndex, runIndex)]
         ELSE Bind(HydrateCheckData(Head(vals), checkIndex), LAMBDA one :
                IF one.err # NoErr
                THEN [out |-> <<>>, orig |-> <<one.orig>> \o Tail(vals),
                      err |-> one.err, fetched |-> one.fetched]
                ELSE Bind(HydrateCheckDataArr(Tail(vals), checkIndex + 1, runIndex),
                          LAMBDA rest :
                       [out |-> <<one.out>> \o rest.out,
                        orig |-> <<one.orig>> \o rest.orig,
                        err |-> rest.err,
                        fetched |-> one.fetched \o rest.fetched]))

\* the entry of the input array after the loop over what it hydrated to: an
\* inline object is the object the loop worked on
AfterLoop(entry, done) ==
    IF IsLiteral(entry) /\ entry.t \in {"run", "check"} THEN done.orig[1] ELSE entry

\* the loop over the checks of a run
RECURSIVE HydrateChecks(_, _, _)
HydrateChecks(cs, checkIndex, runIndex) ==
    IF cs = <<>>
    THEN NothingHydrated
    ELSE Bind(hydrateConfigFragment(Head(cs), "check"), LAMBDA frag :
           IF frag.err # NoErr
           THEN [out |-> <<>>, orig |-> cs, fetched |-> frag.fetched,
                 err |-> CheckFragmentError(checkIndex, runIndex, frag.err)]
           ELSE Bind(HydrateCheckDataArr(frag.vals, checkIndex, runIndex), LAMBDA done :
                  IF done.err # NoErr
                  THEN [out |-> <<>>, orig |-> <<AfterLoop(Head(cs), done)>> \o Tail(cs),
                        err |-> done.err, fetched |-> frag.fetched \o done.fetched]
                  ELSE Bind(HydrateChecks(Tail(cs), checkIndex + Len(done.out), runIndex),
                            LAMBDA rest :
                         [out |-> done.out \o rest.out,
                          orig |-> <<AfterLoop(Head(cs), done)>> \o rest.orig,
                          err |-> rest.err,
                          fetched |-> frag.fetched \o done.fetched \o rest.fetched])))

RunFragmentError(runIndex, cause) ==
    Err("Could not fetch or validate Run", runIndex, 0, 0, cause)

RunNotRecognized(runIndex) ==
    Err("Run Config Fragment was not in a recognized Config Fragment format",
        runIndex, 0, 0, NoErr)

\* the loop over hydratedRunArr
RECURSIVE HydrateRunArr(_, _)
HydrateRunArr(vals, runIndex) ==
    IF vals = <<>>
    THEN NothingHydrated
    ELSE IF Head(vals).t = "string"
         THEN [out |-> <<>>, orig |-> vals, fetched |-> <<>>,
               err |-> RunNotRecognized(runIndex)]
         ELSE Bind(HydrateChecks(Head(vals).checks, 1, runIndex), LAMBDA hc :
                IF hc.err # NoErr
                THEN [out |-> <<>>,
                      orig |-> <<[Head(vals) EXCEPT !.checks = hc.orig]>> \o Tail(vals),
                      err |-> hc.err, fetched |-> hc.fetched]
                ELSE Bind(HydrateRunArr(Tail(vals), runIndex + 1), LAMBDA rest :
                       [out |-> <<[Head(vals) EXCEPT !.checks = hc.out]>> \o rest.out,
                        orig |-> <<[Head(vals) EXCEPT !.checks = hc.orig]>> \o rest.orig,
                        err |-> rest.err,
                        fetched |-> hc.fetched \o rest.fetched]))

\* the loop over realRuns
RECURSIVE HydrateRuns(_, _)
HydrateRuns(rs, runIndex) ==
    IF rs = <<>>
    THEN NothingHydrated
    ELSE Bind(hydrateConfigFragment(Head(rs), "run"), LAMBDA frag :
           IF frag.err # NoErr
           THEN [out |-> <<>>, orig |-> rs, fetched |-> frag.fetched,
                 err |-> RunFragmentError(runIndex, frag.err)]
           ELSE Bind(HydrateRunArr(frag.vals, runIndex), LAMBDA done :
                  IF done.err # NoErr
                  THEN [out |-> <<>>, orig |-> <<AfterLoop(Head(rs), done)>> \o Tail(rs),
                        err |-> done.err, fetched |-> frag.fetched \o done.fetched]
                  ELSE Bind(HydrateRuns(Tail(rs), runIndex + Len(done.out)), LAMBDA rest :
                         [out |-> done.out \o rest.out,
                          orig |-> <<AfterLoop(Head(rs), done)>> \o rest.orig,
                          err |-> rest.err,
                          fetched |-> frag.fetched \o done.fetched \o rest.fetched])))

\* validateJson(hydratedConfig, appSchema): every entry has the shape the
\* schema allows at its place
RECURSIVE RulesValid(_)
RulesValid(rs) ==
    \A i \in DOMAIN rs :
        \/ rs[i].t \in {"string", "rule"}
        \/ rs[i].t = "set" /\ RulesValid(rs[i].rules)

AppSchemaValid(runs) ==
    \A i \in DOMAIN runs :
        \A j \in DOMAIN runs[i].checks :
            LET c == runs[i].checks[j]
            IN /\ c.t = "check"
               /\ RulesValid(OrEmpty(c.rules))
               /\ \A k \in DOMAIN OrEmpty(c.actions) :
                     OrEmpty(c.actions)[k].t \in {"string", "action"}

RejectsShapeNever(checks, runs) == FALSE

\* the top-level guard of hydrateConfig
RejectsShape(checks, runs) == Len(checks) > 0 /\ Len(runs) > 0

RealRunsRunPerCheck(checks, runs) ==
    runs \o [i \in 1..Len(checks) |-> Run1(<<checks[i]>>)]

\* realRuns: the runs array, with the synthetic run pushed onto it
RealRuns(checks, runs) == IF Len(checks) > 0 THEN Append(runs, Run1(checks)) ELSE runs

\* the input object after the loops: runs = [] is the array of the input when
\* it has one, so the push and the changes to its elements are changes of the
\* input; the synthetic run holds the checks array of the input
ConfigAfter(config, orig) ==
    LET withChecks == IF Len(OrEmpty(config.checks)) > 0
                      THEN [config EXCEPT !.checks = Arr(orig[Len(orig)].checks)]
                      ELSE config
    IN IF config.runs # Undefined
       THEN [withChecks EXCEPT !.runs = Arr(orig)]
       ELSE withChecks

NoDoc == DocObj(Undefined, Undefined, Undefined)

\* hydrateConfig(config, resource): out is the hydrated document, err what is
\* thrown, fetched the paths fetched in order, config the input object as the
\* call leaves it
hydrateConfig(config) ==
    IF RejectsShape(OrEmpty(config.checks), OrEmpty(config.runs))
    THEN [out |-> NoDoc, err |-> BothChecksAndRuns, fetched |-> <<>>, config |-> config]
    ELSE Bind(HydrateRuns(RealRuns(OrEmpty(config.checks), OrEmpty(config.runs)), 1),
              LAMBDA h :
           IF h.err # NoErr
           THEN [out |-> NoDoc, err |-> h.err, fetched |-> h.fetched,
                 config |-> ConfigAfter(config, h.orig)]
           ELSE IF ~AppSchemaValid(h.out)
                THEN [out |-> NoDoc, fetched |-> h.fetched,
                      config |-> ConfigAfter(config, h.orig),
                      err |-> Err("Config schema validity failure", 0, 0, 0, NoErr)]
                ELSE [out |-> DocObj(Arr(h.out), Undefined, config.filterCriteriaDefaults),
                      err |-> NoErr, fetched |-> h.fetched,
                      config |-> ConfigAfter(config, h.orig)])

(***************************************************************************)
(* PART 4.  Named filters and the structured graph                         *)
(*          (ConfigBuilder.parseToStructured)                              *)
(***************************************************************************)

\* the entries of a filter: a string, a criteria object carrying a criteria
\* property (with or without a name), a bare criteria object
NamedCriteria(name, criteria) == [t |-> "named", name |-> name, criteria |-> criteria]

AnonCriteria(criteria) == [t |-> "anon", criteria |-> criteria]

\* a filter that is an object with include and exclude
FilterObj(include, exclude) == [f |-> "filter", include |-> include, exclude |-> exclude]

\* filterCriteriaDefaults, of the document, of a run, or of the caller
FcdObj(authorIs, itemIs) == [f |-> "defaults", authorIs |-> authorIs, itemIs |-> itemIs]

\* a postFail or postTrigger value that is present
Behavior(v) == [f |-> "behavior", v |-> v]

asNamedCriteria(val) == val.t = "named"

isRuleSetJSON(r) == r.t = "set"

FilterConflict(filterName, name) ==
    [e |-> "names for filters must be unique", filter |-> filterName, name |-> name]

NoNamedCriteria(filterName, name) ==
    [e |-> "No named criteria with the name", filter |-> filterName, name |-> name]

NoNamedRule(name) == [e |-> "No named Rule with the name was found", name |-> name]

NoNamedAction(name) == [e |-> "No named Action with the name was found", name |-> name]

\* addToNamedFilter(namedFilter, filterName)(val)
addToNamedFilter(map, filterName, val) ==
    IF val.t = "string"
    THEN [map |-> map, err |-> NoErr]
    ELSE IF asNamedCriteria(val) /\ val.name # NoName
         THEN IF MapHas(map, toLowerCase(val.name))
              THEN [map |-> map, err |-> FilterConflict(filterName, val.name)]
              ELSE [map |-> MapSet(map, toLowerCase(val.name), val), err |-> NoErr]
         ELSE [map |-> map, err |-> NoErr]

\* for (const v of ...) addToFilter(v)
RECURSIVE AddAllToNamedFilter(_, _, _)
AddAllToNamedFilter(map, filterName, vals) ==
    IF vals = <<>>
    THEN [map |-> map, err |-> NoErr]
    ELSE Bind(addToNamedFilter(map, filterName, Head(vals)), LAMBDA one :
           IF one.err # NoErr
           THEN one
           ELSE AddAllToNamedFilter(one.map, filterName, Tail(vals)))

\* parseFilterJson(addToFilter)(val)
parseFilterJson(map, filterName, val) ==
    IF val = Undefined
    THEN [map |-> map, err |-> NoErr]
    ELSE IF val.f = "array"
         THEN AddAllToNamedFilter(map, filterName, val.items)
         ELSE AddAllToNamedFilter(map, filterName,
                                  OrEmpty(val.include) \o OrEmpty(val.exclude))

\* one parseAuthorIs(val) or parseItemIs(val) of extractNamedFilters
ParseAuthorIs(val) == [filter |-> "authorIs", val |-> val]

ParseItemIs(val) == [filter |-> "itemIs", val |-> val]

\* filterCriteriaDefaults?.authorIs, filterCriteriaDefaults?.itemIs
OptAuthorIs(fcd) == IF fcd = Undefined THEN Undefined ELSE fcd.authorIs

OptItemIs(fcd) == IF fcd = Undefined THEN Undefined ELSE fcd.itemIs

RECURSIVE Flatten(_)
Flatten(seqs) == IF seqs = <<>> THEN <<>> ELSE Head(seqs) \o Flatten(Tail(seqs))

\* the parse calls extractNamedFilters makes for one entry of c.rules
RuleParses(ru, c) ==
    IF ru.t = "string"
    THEN <<>>
    ELSE IF isRuleSetJSON(ru)
         THEN Flatten([i \in DOMAIN ru.rules |->
                  LET rr == ru.rules[i]
                  IN IF rr.t = "string"
                     THEN <<>>
                     ELSE <<ParseAuthorIs(IF rr.t = "set" THEN Undefined ELSE rr.authorIs),
                            ParseItemIs(c.itemIs)>>])
         ELSE <<ParseAuthorIs(ru.authorIs), ParseItemIs(c.itemIs)>>

ActionParses(a, c) ==
    IF a.t = "string" THEN <<>> ELSE <<ParseAuthorIs(a.authorIs), ParseItemIs(c.itemIs)>>

CheckParses(c) ==
    <<ParseAuthorIs(c.authorIs), ParseItemIs(c.itemIs)>>
    \o Flatten([i \in DOMAIN OrEmpty(c.rules) |-> RuleParses(OrEmpty(c.rules)[i], c)])
    \o Flatten([i \in DOMAIN OrEmpty(c.actions) |-> ActionParses(OrEmpty(c.actions)[i], c)])

RunParses(r, filterCriteriaDefaults) ==
    <<ParseAuthorIs(OptAuthorIs(filterCriteriaDefaults)), ParseAuthorIs(r.authorIs),
      ParseItemIs(r.itemIs), ParseItemIs(OptItemIs(filterCriteriaDefaults))>>
    \o Flatten([j \in DOMAIN r.checks |-> CheckParses(r.checks[j])])

\* the parse calls of extractNamedFilters, in the order it makes them
FilterParses(filterCriteriaDefaults, runs) ==
    <<ParseAuthorIs(OptAuthorIs(filterCriteriaDefaults)),
      ParseItemIs(OptItemIs(filterCriteriaDefaults))>>
    \o Flatten([i \in DOMAIN runs |-> RunParses(runs[i], filterCriteriaDefaults)])

RECURSIVE RunFilterParses(_, _, _)
RunFilterParses(parses, authors, items) ==
    IF parses = <<>>
    THEN [authors |-> authors, items |-> items, err |-> NoErr]
    ELSE Bind(parseFilterJson(IF Head(parses).filter = "authorIs" THEN authors ELSE items,
                              Head(parses).filter, Head(parses).val), LAMBDA one :
           IF one.err # NoErr
           THEN [authors |-> authors, items |-> items, err |-> one.err]
           ELSE IF Head(parses).filter = "authorIs"
                THEN RunFilterParses(Tail(parses), one.map, items)
                ELSE RunFilterParses(Tail(parses), authors, one.map))

\* extractNamedFilters(config): the two maps, or the error thrown
extractNamedFilters(filterCriteriaDefaults, runs) ==
    RunFilterParses(FilterParses(filterCriteriaDefaults, runs), EmptyMap, EmptyMap)

\* namedFilters.get(x): the key is the string as written
GetAsWritten(namedFilters, x) ==
    IF MapHas(namedFilters, x) THEN MapGet(namedFilters, x) ELSE Undefined

GetLowerCased(namedFilters, x) == GetAsWritten(namedFilters, toLowerCase(x))

\* getNamedOrReturn(namedFilters, filterName)(x)
getNamedOrReturn(namedFilters, filterName, x) ==
    IF x.t = "string"
    THEN IF ~MapHas(namedFilters, toLowerCase(x.s))
         THEN [val |-> Undefined, err |-> NoNamedCriteria(filterName, x.s)]
         ELSE [val |-> GetAsWritten(namedFilters, x.s), err |-> NoErr]
    ELSE IF asNamedCriteria(x)
         THEN [val |-> x, err |-> NoErr]
         ELSE [val |-> NamedCriteria(NoName, x.criteria), err |-> NoErr]

\* xs.map(x => getNamedOrReturn(x))
RECURSIVE MapNamedOrReturn(_, _, _)
MapNamedOrReturn(namedFilters, filterName, xs) ==
    IF xs = <<>>
    THEN [vals |-> <<>>, err |-> NoErr]
    ELSE Bind(getNamedOrReturn(namedFilters, filterName, Head(xs)), LAMBDA one :
           IF one.err # NoErr
           THEN [vals |-> <<>>, err |-> one.err]
           ELSE Bind(MapNamedOrReturn(namedFilters, filterName, Tail(xs)), LAMBDA rest :
                  IF rest.err # NoErr
                  THEN rest
                  ELSE [vals |-> <<one.val>> \o rest.vals, err |-> NoErr]))

\* include.map(...) or exclude.map(...) of a list that may be undefined
MapOptional(namedFilters, filterName, list) ==
    IF list = Undefined
    THEN [val |-> Undefined, err |-> NoErr]
    ELSE Bind(MapNamedOrReturn(namedFilters, filterName, list.items), LAMBDA mapped :
           [val |-> Arr(mapped.vals), err |-> mapped.err])

\* one of the two halves of insertNameFilters: a filter field composed
ComposeField(namedFilters, filterName, field) ==
    IF field = Undefined
    THEN [val |-> Undefined, err |-> NoErr]
    ELSE IF field.f = "array"
         THEN MapOptional(namedFilters, filterName, field)
         ELSE Bind(MapOptional(namedFilters, filterName, field.include), LAMBDA inc :
                IF inc.err # NoErr
                THEN [val |-> Undefined, err |-> inc.err]
                ELSE Bind(MapOptional(namedFilters, filterName, field.exclude),
                          LAMBDA exc :
                       [val |-> FilterObj(inc.val, exc.val), err |-> exc.err]))

\* insertNameFilters(namedAuthorFilters, namedItemFilters)(val)
insertNameFilters(namedAuthorFilters, namedItemFilters, val) ==
    Bind(ComposeField(namedAuthorFilters, "authorIs", val.authorIs), LAMBDA a :
      IF a.err # NoErr
      THEN [authorIs |-> Undefined, itemIs |-> Undefined, err |-> a.err]
      ELSE Bind(ComposeField(namedItemFilters, "itemIs", val.itemIs), LAMBDA i :
             [authorIs |-> a.val, itemIs |-> i.val, err |-> i.err]))

\* buildDefaultFilterCriteriaFromJson(val, namedAuthorFilters, namedItemFilters)
buildDefaultFilterCriteriaFromJson(val, namedAuthorFilters, namedItemFilters) ==
    Bind(insertNameFilters(namedAuthorFilters, namedItemFilters, val), LAMBDA fullFilters :
      [val |-> FcdObj(fullFilters.authorIs, fullFilters.itemIs), err |-> fullFilters.err])

\* mergeFilters(objectConfig, filterDefs): each of the two fields is the
\* object's own when it defines it, else that of the defaults
mergeFilters(objectConfig, filterDefs) ==
    [authorIs |-> IF objectConfig.authorIs # Undefined THEN objectConfig.authorIs
                  ELSE OptAuthorIs(filterDefs),
     itemIs |-> IF objectConfig.itemIs # Undefined THEN objectConfig.itemIs
                ELSE OptItemIs(filterDefs)]

\* buildFilter(filter): the include and the exclude list of a filter
buildFilter(filter) ==
    IF filter.f = "array"
    THEN [include |-> Arr(filter.items), exclude |-> Arr(<<>>)]
    ELSE [include |-> Arr(OrEmpty(filter.include)), exclude |-> Arr(OrEmpty(filter.exclude))]

\* {...entity, ...namedFilters(entity)}
WithFilters(entity, filters) ==
    [entity EXCEPT !.authorIs = filters.authorIs, !.itemIs = filters.itemIs]

\* the include and exclude of a rule of kind 'author', rebuilt
AuthorKind(rule, namedAuthorFilters, namedItemFilters) ==
    IF rule.kind = "author"
    THEN Bind(insertNameFilters(namedAuthorFilters, namedItemFilters,
                                [authorIs |-> FilterObj(rule.include, rule.exclude),
                                 itemIs |-> Undefined]), LAMBDA filters :
           IF filters.err # NoErr
           THEN [val |-> rule, err |-> filters.err]
           ELSE [val |-> [rule EXCEPT !.include = buildFilter(filters.authorIs).include,
                                      !.exclude = buildFilter(filters.authorIs).exclude],
                 err |-> NoErr])
    ELSE [val |-> rule, err |-> NoErr]

\* {...rule, ...namedFilters(rule)}, then the include and exclude of kind
\* 'author'
StrongRule(rule, namedAuthorFilters, namedItemFilters) ==
    Bind(insertNameFilters(namedAuthorFilters, namedItemFilters, rule), LAMBDA nf :
      IF nf.err # NoErr
      THEN [val |-> rule, err |-> nf.err]
      ELSE AuthorKind(WithFilters(rule, nf), namedAuthorFilters, namedItemFilters))

\* {...action, ...namedFilters(action)}
StrongAction(action, namedAuthorFilters, namedItemFilters) ==
    Bind(insertNameFilters(namedAuthorFilters, namedItemFilters, action), LAMBDA nf :
      [val |-> WithFilters(action, nf), err |-> nf.err])

FindRuleAsWritten(namedRulesMap, str) == GetAsWritten(namedRulesMap, str)

\* namedRules.get(r.toLowerCase())
FindRule(namedRulesMap, str) == GetLowerCased(namedRulesMap, str)

\* one entry of the rules array in insertNamedRules
RECURSIVE insertNamedRules(_, _, _, _)
InsertNamedRule(r, namedRulesMap, namedAuthorFilters, namedItemFilters) ==
    IF r.t = "string"
    THEN IF FindRule(namedRulesMap, r.s) = Undefined
         THEN [val |-> r, err |-> NoNamedRule(r.s)]
         ELSE StrongRule(FindRule(namedRulesMap, r.s), namedAuthorFilters, namedItemFilters)
    ELSE IF isRuleSetJSON(r)
         THEN Bind(insertNamedRules(r.rules, namedRulesMap, namedAuthorFilters,
                                    namedItemFilters), LAMBDA setRules :
                [val |-> [r EXCEPT !.rules = setRules.vals], err |-> setRules.err])
         ELSE StrongRule(r, namedAuthorFilters, namedItemFilters)

\* insertNamedRules(rules, namedRules, namedAuthorFilters, namedItemFilters)
insertNamedRules(rs, namedRulesMap, namedAuthorFilters, namedItemFilters) ==
    IF rs = <<>>
    THEN [vals |-> <<>>, err |-> NoErr]
    ELSE Bind(InsertNamedRule(Head(rs), namedRulesMap, namedAuthorFilters,
                              namedItemFilters), LAMBDA one :
           IF one.err # NoErr
           THEN [vals |-> <<>>, err |-> one.err]
           ELSE Bind(insertNamedRules(Tail(rs), namedRulesMap, namedAuthorFilters,
                                      namedItemFilters), LAMBDA rest :
                  IF rest.err # NoErr
                  THEN rest
                  ELSE [vals |-> <<one.val>> \o rest.vals, err |-> NoErr]))

\* one entry of the actions array in insertNamedActions
InsertNamedAction(a, namedActionsMap, namedAuthorFilters, namedItemFilters) ==
    IF a.t = "string"
    THEN IF GetLowerCased(namedActionsMap, a.s) = Undefined
         THEN [val |-> a, err |-> NoNamedAction(a.s)]
         ELSE StrongAction(GetLowerCased(namedActionsMap, a.s),
                           namedAuthorFilters, namedItemFilters)
    ELSE StrongAction(a, namedAuthorFilters, namedItemFilters)

\* insertNamedActions(actions, namedActions, namedAuthorFilters, namedItemFilters)
RECURSIVE insertNamedActions(_, _, _, _)
insertNamedActions(as, namedActionsMap, namedAuthorFilters, namedItemFilters) ==
    IF as = <<>>
    THEN [vals |-> <<>>, err |-> NoErr]
    ELSE Bind(InsertNamedAction(Head(as), namedActionsMap, namedAuthorFilters,
                                namedItemFilters), LAMBDA one :
           IF one.err # NoErr
           THEN [vals |-> <<>>, err |-> one.err]
           ELSE Bind(insertNamedActions(Tail(as), namedActionsMap, namedAuthorFilters,
                                        namedItemFilters), LAMBDA rest :
                  IF rest.err # NoErr
                  THEN rest
                  ELSE [vals |-> <<one.val>> \o rest.vals, err |-> NoErr]))

\* the first loop of parseToStructured: the named rules and actions of every
\* check of every run
RECURSIVE ExtractFromChecks(_, _, _)
ExtractFromChecks(cs, rulesMap, actionsMap) ==
    IF cs = <<>>
    THEN [namedRules |-> rulesMap, namedActions |-> actionsMap, err |-> NoErr]
    ELSE Bind(extractNamedRules(OrEmpty(Head(cs).rules), rulesMap), LAMBDA nr :
           IF nr.err # NoErr
           THEN [namedRules |-> rulesMap, namedActions |-> actionsMap, err |-> nr.err]
           ELSE Bind(extractNamedActions(OrEmpty(Head(cs).actions), actionsMap),
                     LAMBDA na :
                  IF na.err # NoErr
                  THEN [namedRules |-> rulesMap, namedActions |-> actionsMap,
                        err |-> na.err]
                  ELSE ExtractFromChecks(Tail(cs), nr.map, na.map)))

AllChecks(runs) == Flatten([i \in DOMAIN runs |-> runs[i].checks])

\* a ?? b
Coalesce(a, b) == IF a # Undefined THEN a ELSE b

\* Object.assign({}, postCheckBehaviorDefaultsFromBot,
\*               removeUndefinedKeys({postFail, postTrigger})), spread over c
PostBehaviors(c, postFail, postTrigger, fromBot) ==
    [c EXCEPT !.postFail = Coalesce(postFail, Coalesce(fromBot.postFail, c.postFail)),
              !.postTrigger = Coalesce(postTrigger,
                                       Coalesce(fromBot.postTrigger, c.postTrigger))]

\* mergeFilters(defaults): the filters of the check are left out
CheckFiltersOfDefaults(nf, defaults) ==
    mergeFilters([authorIs |-> Undefined, itemIs |-> Undefined], defaults)

\* const [derivedAuthorIs, derivedItemIs] = mergeFilters(namedFilters(c), ...)
CheckFilters(nf, defaults) == mergeFilters(nf, defaults)

\* one pass of the loop over r.checks of parseToStructured
StructureCheck(c, r, maps, defaults, fromBot) ==
    Bind(insertNamedRules(OrEmpty(c.rules), maps.namedRules, maps.authors, maps.items),
         LAMBDA strongRules :
      IF strongRules.err # NoErr
      THEN [val |-> c, err |-> strongRules.err]
      ELSE Bind(insertNamedActions(OrEmpty(c.actions), maps.namedActions, maps.authors,
                                   maps.items), LAMBDA strongActions :
             IF strongActions.err # NoErr
             THEN [val |-> c, err |-> strongActions.err]
             ELSE Bind(insertNameFilters(maps.authors, maps.items, c), LAMBDA nf :
                    [val |-> PostBehaviors(
                                 [c EXCEPT !.authorIs = CheckFilters(nf, defaults).authorIs,
                                           !.itemIs = CheckFilters(nf, defaults).itemIs,
                                           !.rules = Arr(strongRules.vals),
                                           !.actions = Arr(strongActions.vals)],
                                 r.postFail, r.postTrigger, fromBot),
                     err |-> nf.err])))

\* the loop over r.checks of parseToStructured
RECURSIVE StructureChecks(_, _, _, _, _)
StructureChecks(cs, r, maps, defaults, fromBot) ==
    IF cs = <<>>
    THEN [vals |-> <<>>, err |-> NoErr]
    ELSE Bind(StructureCheck(Head(cs), r, maps, defaults, fromBot), LAMBDA one :
           IF one.err # NoErr
           THEN [vals |-> <<>>, err |-> one.err]
           ELSE Bind(StructureChecks(Tail(cs), r, maps, defaults, fromBot), LAMBDA rest :
                  IF rest.err # NoErr
                  THEN rest
                  ELSE [vals |-> <<one.val>> \o rest.vals, err |-> NoErr]))

\* configFilterDefaultsFromRun
DefaultsFromRun(r, maps) ==
    IF r.filterCriteriaDefaults = Undefined
    THEN [val |-> Undefined, err |-> NoErr]
    ELSE buildDefaultFilterCriteriaFromJson(r.filterCriteriaDefaults,
                                            maps.authors, maps.items)

\* one pass of the second loop over realRuns of parseToStructured
StructureRun(r, maps, configFilterDefaults, fromBot) ==
    Bind(insertNameFilters(maps.authors, maps.items, r), LAMBDA nf :
      IF nf.err # NoErr
      THEN [val |-> r, err |-> nf.err]
      ELSE Bind(DefaultsFromRun(r, maps), LAMBDA fromRun :
             IF fromRun.err # NoErr
             THEN [val |-> r, err |-> fromRun.err]
             ELSE Bind(StructureChecks(r.checks, r, maps,
                           Coalesce(fromRun.val,
                                    Coalesce(configFilterDefaults,
                                             fromBot.filterCriteriaDefaults)),
                           fromBot.postCheckBehaviorDefaults), LAMBDA checks :
                    [val |-> [r EXCEPT
                                 !.checks = checks.vals,
                                 !.authorIs =
                                     mergeFilters(nf, Coalesce(configFilterDefaults,
                                         fromBot.filterCriteriaDefaults)).authorIs,
                                 !.itemIs =
                                     mergeFilters(nf, Coalesce(configFilterDefaults,
                                         fromBot.filterCriteriaDefaults)).itemIs],
                     err |-> checks.err])))

\* the second loop over realRuns of parseToStructured
RECURSIVE StructureRuns(_, _, _, _)
StructureRuns(runs, maps, configFilterDefaults, fromBot) ==
    IF runs = <<>>
    THEN [vals |-> <<>>, err |-> NoErr]
    ELSE Bind(StructureRun(Head(runs), maps, configFilterDefaults, fromBot), LAMBDA one :
           IF one.err # NoErr
           THEN [vals |-> <<>>, err |-> one.err]
           ELSE Bind(StructureRuns(Tail(runs), maps, configFilterDefaults, fromBot),
                     LAMBDA rest :
                  IF rest.err # NoErr
                  THEN rest
                  ELSE [vals |-> <<one.val>> \o rest.vals, err |-> NoErr]))

\* configFilterDefaults
DefaultsFromConfig(config, authors, items) ==
    IF config.filterCriteriaDefaults = Undefined
    THEN [val |-> Undefined, err |-> NoErr]
    ELSE buildDefaultFilterCriteriaFromJson(config.filterCriteriaDefaults, authors, items)

\* what parseToStructured gives when it throws err after hydration
ParseFailed(hydrated, err) ==
    [runs |-> <<>>, err |-> err, fetched |-> hydrated.fetched,
     config |-> hydrated.config, hydrated |-> OrEmpty(hydrated.out.runs)]

\* parseToStructured after the two extractions
StructureAll(config, fromBot, hydrated, maps) ==
    Bind(DefaultsFromConfig(config, maps.authors, maps.items), LAMBDA configFilterDefaults :
      IF configFilterDefaults.err # NoErr
      THEN ParseFailed(hydrated, configFilterDefaults.err)
      ELSE Bind(StructureRuns(OrEmpty(hydrated.out.runs), maps, configFilterDefaults.val,
                              fromBot), LAMBDA structuredRuns :
             IF structuredRuns.err # NoErr
             THEN ParseFailed(hydrated, structuredRuns.err)
             ELSE [runs |-> structuredRuns.vals, err |-> NoErr,
                   fetched |-> hydrated.fetched, config |-> hydrated.config,
                   hydrated |-> OrEmpty(hydrated.out.runs)]))

\* parseToStructured(config, resource, filterCriteriaDefaultsFromBot,
\* postCheckBehaviorDefaultsFromBot): runs is the structured graph returned,
\* err what is thrown, config the input object as the call leaves it,
\* hydrated the runs of its hydratedConfig
parseToStructured(config, fromBot) ==
    Bind(hydrateConfig(config), LAMBDA hydrated :
      IF hydrated.err # NoErr
      THEN ParseFailed(hydrated, hydrated.err)
      ELSE Bind(ExtractFromChecks(AllChecks(OrEmpty(hydrated.out.runs)), EmptyMap, EmptyMap),
                LAMBDA named :
             IF named.err # NoErr
             THEN ParseFailed(hydrated, named.err)
             ELSE Bind(extractNamedFilters(hydrated.out.filterCriteriaDefaults,
                                           OrEmpty(hydrated.out.runs)), LAMBDA filters :
                    IF filters.err # NoErr
                    THEN ParseFailed(hydrated, filters.err)
                    ELSE StructureAll(config, fromBot, hydrated,
                             [namedRules |-> named.namedRules,
                              namedActions |-> named.namedActions,
                              authors |-> filters.authors, items |-> filters.items]))))

\* the caller-supplied defaults of parseToStructured
BotObj(filterCriteriaDefaults, postCheckBehaviorDefaults) ==
    [filterCriteriaDefaults |-> filterCriteriaDefaults,
     postCheckBehaviorDefaults |-> postCheckBehaviorDefaults]

\* postCheckBehaviorDefaultsFromBot = {}
NoPostBehavior == [postFail |-> Undefined, postTrigger |-> Undefined]

NoBot == BotObj(Undefined, NoPostBehavior)

NameC1 == <<"c", "1">>

NameC2 == <<"c", "2">>

NameZ == <<"z">>

BareCheck(name, checkRules, actions) ==
    CheckObj(name, checkRules, actions, Undefined, Undefined, Undefined, Undefined)

BareRun(name, checks) ==
    RunObj(name, checks, Undefined, Undefined, Undefined, Undefined, Undefined)

\* Bound: number of entries of the rules array of the first check
MaxCheckRules == 2

\* entries of the rules array of a check: inline rules, references by name
\* (registered in another case, or nowhere), a rule set, a fragment reference
RefRulePool ==
    { PlainRule(NameSp, "cfg1"), StrRef(Namesp), StrRef(NameZ),
      RuleSetObj("AND", <<StrRef(NameSp), PlainRule(NameOther, "cfg2")>>),
      StrRef(WikiRules) }

RefActionLists ==
    { Arr(<<PlainAction(NameSp, "cfg1")>>), Arr(<<StrRef(Namesp), StrRef(NameZ)>>) }

RefChecks ==
    { BareCheck(NameC1, rs, as) :
        rs \in {Undefined} \cup {Arr(l) : l \in SeqsUpTo(RefRulePool, MaxCheckRules)},
        as \in RefActionLists }

\* a check that defines the rule and the action named "sp"
DefinerCheck ==
    BareCheck(NameC2, Arr(<<PlainRule(Namesp, "cfg1")>>), Arr(<<PlainAction(Namesp, "cfg1")>>))

\* the documents built around one check c1
DocsAround(c1) ==
    { DocObj(Undefined, Arr(<<c1>>), Undefined),
      DocObj(Undefined, Arr(<<c1, DefinerCheck>>), Undefined),
      DocObj(Undefined, Arr(<<StrRef(WikiCheck), c1>>), Undefined),
      DocObj(Arr(<<>>), Arr(<<c1>>), Undefined),
      DocObj(Arr(<<BareRun(<<"a">>, <<c1, DefinerCheck>>)>>), Undefined, Undefined),
      DocObj(Arr(<<BareRun(<<"a">>, <<c1>>), BareRun(<<"b">>, <<DefinerCheck>>)>>),
             Arr(<<>>), Undefined),
      DocObj(Arr(<<BareRun(<<"a">>, <<DefinerCheck>>), BareRun(<<"b">>, <<c1>>)>>),
             Undefined, Undefined),
      DocObj(Arr(<<StrRef(WikiRun), BareRun(<<"b">>, <<c1>>)>>), Undefined, Undefined) }

\* documents whose runs or checks are not what the builder accepts
OddDocs ==
    { DocObj(Undefined, Undefined, Undefined),
      DocObj(Arr(<<BareRun(<<"a">>, <<DefinerCheck>>)>>),
             Arr(<<BareCheck(NameC1, Arr(<<StrRef(WikiRules)>>), Undefined)>>), Undefined),
      DocObj(Arr(<<StrRef(WikiRun)>>), Arr(<<DefinerCheck, StrRef(WikiCheck)>>), Undefined),
      DocObj(Arr(<<IncludeObj(NameZ)>>), Undefined, Undefined),
      DocObj(Arr(<<StrRef(NameZ)>>), Undefined, Undefined),
      DocObj(Undefined, Arr(<<StrRef(WikiNotCheck)>>), Undefined),
      DocObj(Undefined, Arr(<<StrRef(NameZ)>>), Undefined) }

\* a check whose rules and actions are fragment references
FragmentCheck(checkRules, actions) == BareCheck(NameC1, Arr(checkRules), Arr(actions))

\* documents with a fragment that cannot be fetched, or is not what its place
\* asks for, at each level, before or after fragments that can, and
\* documents whose fragments can all be fetched
FailDocs ==
    { DocObj(Arr(<<StrRef(UrlGone), StrRef(WikiRun)>>), Undefined, Undefined),
      DocObj(Arr(<<StrRef(WikiRun), StrRef(UrlGone)>>), Undefined, Undefined),
      DocObj(Undefined, Arr(<<StrRef(UrlGone), StrRef(WikiCheck)>>), Undefined),
      DocObj(Undefined, Arr(<<StrRef(WikiCheck), StrRef(WikiNotCheck), StrRef(WikiCheck)>>),
             Undefined),
      DocObj(Undefined,
             Arr(<<DefinerCheck,
                   FragmentCheck(<<StrRef(WikiRule),
                                   RuleSetObj("OR", <<StrRef(WikiRule), StrRef(UrlGone),
                                                      StrRef(WikiRule)>>),
                                   StrRef(WikiRules)>>,
                                 <<StrRef(WikiAction)>>)>>),
             Undefined),
      DocObj(Arr(<<BareRun(<<"a">>, <<DefinerCheck>>),
                   BareRun(<<"b">>, <<DefinerCheck,
                                      FragmentCheck(<<StrRef(WikiRules), StrRef(UrlGone),
                                                      StrRef(WikiRule)>>,
                                                    <<StrRef(WikiAction)>>)>>)>>),
             Undefined, Undefined),
      DocObj(Undefined,
             Arr(<<FragmentCheck(<<StrRef(UrlGone)>>, <<StrRef(WikiAction)>>)>>),
             Undefined),
      DocObj(Undefined,
             Arr(<<FragmentCheck(<<StrRef(WikiRule)>>,
                                 <<StrRef(WikiAction), StrRef(UrlGone),
                                   StrRef(WikiAction)>>)>>),
             Undefined),
      DocObj(Undefined,
             Arr(<<FragmentCheck(<<RuleSetObj("OR", <<StrRef(WikiRule)>>)>>,
                                 <<StrRef(WikiAction)>>)>>),
             Undefined),
      DocObj(Undefined,
             Arr(<<StrRef(WikiCheck),
                   FragmentCheck(<<StrRef(WikiRules),
                                   RuleSetObj("OR", <<StrRef(WikiRule)>>)>>,
                                 <<StrRef(WikiAction), PlainAction(NameSp, "cfg2")>>)>>),
             Undefined) }

RefInputs ==
    { [doc |-> d, bot |-> NoBot] :
        d \in OddDocs \cup FailDocs \cup UNION {DocsAround(c1) : c1 \in RefChecks} }

\* Bound: number of filter fields a filter document defines
MaxDefined == 2

\* the filter fields of a filter document
FilterSlots ==
    { "docAuthor", "docItem", "runAuthor", "runDefAuthor", "checkAuthor", "checkItem",
      "ruleAuthor", "actionAuthor", "include" }

\* the values of a filter field: a named criteria, a reference to it in lower
\* case and in mixed case, an anonymous criteria, a reference to no criteria
FilterValues ==
    { Arr(<<NamedCriteria(Namesp, "mod")>>),
      Arr(<<StrRef(Namesp)>>),
      FilterObj(Arr(<<StrRef(NameSp)>>), Undefined),
      Arr(<<AnonCriteria("new")>>),
      FilterObj(Undefined, Arr(<<StrRef(NameZ)>>)) }

FilterChoices(n) ==
    UNION { [S -> FilterValues] : S \in {T \in SUBSET FilterSlots : Cardinality(T) <= n} }

At(choice, slot) == IF slot \in DOMAIN choice THEN choice[slot] ELSE Undefined

\* one run of one check: a named rule, a reference to it, an action and, when
\* include is chosen, a rule of kind 'author'
FilterDoc(choice) ==
    LET inc == At(choice, "include")
        authorRule ==
            IF inc = Undefined
            THEN <<>>
            ELSE <<RuleObj(NoName, "author", "cfg1", Undefined, Undefined,
                           IF inc.f = "array" THEN inc ELSE inc.include,
                           IF inc.f = "array" THEN Undefined ELSE inc.exclude)>>
        checkRules ==
            <<RuleObj(NameOther, "regex", "cfg1", At(choice, "ruleAuthor"),
                      Undefined, Undefined, Undefined),
              StrRef(NameOther)>> \o authorRule
        action == ActionObj(NoName, "remove", "cfg1", At(choice, "actionAuthor"), Undefined)
        check == CheckObj(NameC1, Arr(checkRules), Arr(<<action>>),
                          At(choice, "checkAuthor"), At(choice, "checkItem"),
                          Undefined, Undefined)
        fromRun == IF "runDefAuthor" \in DOMAIN choice
                   THEN FcdObj(choice["runDefAuthor"], Undefined)
                   ELSE Undefined
        fromDoc == IF {"docAuthor", "docItem"} \cap DOMAIN choice # {}
                   THEN FcdObj(At(choice, "docAuthor"), At(choice, "docItem"))
                   ELSE Undefined
    IN DocObj(Arr(<<RunObj(<<"a">>, <<check>>, At(choice, "runAuthor"), Undefined,
                           fromRun, Undefined, Undefined)>>),
              Undefined, fromDoc)

\* defaults of the caller: composed already
BotDefaults ==
    BotObj(FcdObj(Arr(<<NamedCriteria(NoName, "bot")>>), Undefined), NoPostBehavior)

FilterInputs ==
    { [doc |-> FilterDoc(ch), bot |-> NoBot] : ch \in FilterChoices(MaxDefined) }
    \cup { [doc |-> FilterDoc(ch), bot |-> BotDefaults] : ch \in FilterChoices(MaxDefined - 1) }

\* postFail / postTrigger of a check, of its run and of the caller: each
\* level has a value of its own or none
MaybeBehavior(v) == {Undefined, Behavior(v)}

BehaviorDoc(ofCheck, ofRun) ==
    LET check == CheckObj(NameC1, Arr(<<PlainRule(NameSp, "cfg1")>>),
                          Arr(<<PlainAction(NameSp, "cfg1")>>), Undefined, Undefined,
                          ofCheck.postFail, ofCheck.postTrigger)
    IN DocObj(Arr(<<RunObj(<<"a">>, <<check>>, Undefined, Undefined, Undefined,
                           ofRun.postFail, ofRun.postTrigger)>>),
              Undefined, Undefined)

BehaviorsOf(fail, trigger) ==
    { [postFail |-> pf, postTrigger |-> pt] :
        pf \in MaybeBehavior(fail), pt \in MaybeBehavior(trigger) }

BehaviorInputs ==
    { [doc |-> BehaviorDoc(ofCheck, ofRun), bot |-> BotObj(Undefined, ofBot)] :
        ofCheck \in BehaviorsOf("stop", "nextRun"),
        ofRun \in BehaviorsOf("next", "stop"),
        ofBot \in BehaviorsOf("nextRun", "next") }

Inputs == RefInputs \cup FilterInputs \cup BehaviorInputs

NoOut ==
    [op |-> "none", err |-> NoErr, fetched |-> <<>>,
     before |-> NoDoc, hydrated |-> <<>>, runs |-> <<>>, ret |-> <<>>]

CfgInit ==
    /\ \E input \in Inputs : doc = input.doc /\ bot = input.bot
    /\ calls = 0
    /\ cfgOut = NoOut
    /\ cfgPrev = NoOut

\* a call of hydrateConfig(doc, resource)
HydrateConfigCall ==
    /\ calls < MaxCalls
    /\ calls' = calls + 1
    /\ \E h \in {hydrateConfig(doc)} :
          /\ doc' = h.config
          /\ cfgOut' = [op |-> "hydrateConfig", err |-> h.err, fetched |-> h.fetched,
                        before |-> doc, hydrated |-> OrEmpty(h.out.runs),
                        runs |-> OrEmpty(h.out.runs), ret |-> <<>>]
    /\ cfgPrev' = cfgOut
    /\ UNCHANGED <<hostVars, ruleVars, regVars, bot>>

\* a call of parseToStructured(doc, resource, bot.filterCriteriaDefaults,
\* bot.postCheckBehaviorDefaults)
ParseToStructuredCall ==
    /\ calls < MaxCalls
    /\ calls' = calls + 1
    /\ \E parsed \in {parseToStructured(doc, bot)} :
          /\ doc' = parsed.config
          /\ cfgOut' = [op |-> "parseToStructured", err |-> parsed.err,
                        fetched |-> parsed.fetched, before |-> doc,
                        hydrated |-> parsed.hydrated, runs |-> parsed.runs, ret |-> <<>>]
    /\ cfgPrev' = cfgOut
    /\ UNCHANGED <<hostVars, ruleVars, regVars, bot>>

\* a call of extractNamedFilters({...hydratedConfig, runs: realRuns}) on the
\* document hydrateConfig has just returned
ExtractNamedFiltersCall ==
    /\ calls < MaxCalls
    /\ cfgOut.op = "hydrateConfig"
    /\ cfgOut.err = NoErr
    /\ calls' = calls + 1
    /\ \E f \in {extractNamedFilters(doc.filterCriteriaDefaults, cfgOut.hydrated)} :
          cfgOut' = [op |-> "extractNamedFilters", err |-> f.err, fetched |-> <<>>,
                     before |-> doc, hydrated |-> cfgOut.hydrated, runs |-> <<>>,
                     ret |-> IF f.err = NoErr
                             THEN [authors |-> f.authors, items |-> f.items]
                             ELSE <<>>]
    /\ cfgPrev' = cfgOut
    /\ UNCHANGED <<hostVars, ruleVars, regVars, doc, bot>>

\* the values handed to hydrateConfigFragment: objects, arrays, plain
\* strings, fragment references as strings and as include descriptors
FragmentVals ==
    { PlainRule(NameSp, "cfg1"), DefinerCheck, BareRun(<<"a">>, <<DefinerCheck>>),
      Arr(<<>>), Arr(<<PlainRule(NameSp, "cfg1"), StrRef(Namesp)>>), Arr(<<StrRef(WikiRule)>>),
      StrRef(Namesp),
      StrRef(WikiRule), StrRef(WikiRules), StrRef(WikiCheck), StrRef(WikiRun),
      StrRef(UrlGone), StrRef(WikiNotCheck),
      IncludeObj(WikiCheck), IncludeObj(NameZ) }

\* the validateFunc handed to it: none, or the one hydrateConfig builds for
\* a check or for a run
ValidateFuncs == {"none", "check", "run"}

\* a call of hydrateConfigFragment(val, resource, validateFunc)
HydrateConfigFragmentCall ==
    /\ calls < MaxCalls
    /\ calls' = calls + 1
    /\ \E val \in FragmentVals, validateFunc \in ValidateFuncs :
          \E frag \in {hydrateConfigFragment(val, validateFunc)} :
             cfgOut' = [op |-> "hydrateConfigFragment", err |-> frag.err,
                        fetched |-> frag.fetched, before |-> doc, hydrated |-> <<>>,
                        runs |-> <<>>,
                        ret |-> [val |-> val, validateFunc |-> validateFunc,
                                 vals |-> frag.vals, validated |-> frag.validated]]
    /\ cfgPrev' = cfgOut
    /\ UNCHANGED <<hostVars, ruleVars, regVars, doc, bot>>

CfgNext ==
    \/ HydrateConfigCall
    \/ ParseToStructuredCall
    \/ ExtractNamedFiltersCall

(***************************************************************************)
(* Claims about hydration                                                  *)
(***************************************************************************)

Hydrated == cfgOut.op = "hydrateConfig"

BothNonEmpty(d) == Len(OrEmpty(d.runs)) > 0 /\ Len(OrEmpty(d.checks)) > 0

\* C9: hydrateConfig of a document whose top-level runs and checks are both
\* non-empty fails, fetches nothing and returns no hydrated document
C9_BothRunsAndChecksRejected ==
    (Hydrated /\ BothNonEmpty(cfgOut.before)) =>
        /\ cfgOut.err # NoErr
        /\ cfgOut.fetched = <<>>
        /\ cfgOut.runs = <<>>

\* rejected although its first run is a fragment reference
C9_Witness ==
    /\ Hydrated
    /\ BothNonEmpty(cfgOut.before)
    /\ cfgOut.before.runs.items[1] = StrRef(WikiRun)
    /\ cfgOut.err = BothChecksAndRuns

ChecksOnly(d) == Len(OrEmpty(d.runs)) = 0 /\ Len(OrEmpty(d.checks)) > 0

CheckNames(cs) == [i \in DOMAIN cs |-> cs[i].name]

AllInline(cs) == \A i \in DOMAIN cs : cs[i].t = "check"

\* C10: hydrateConfig of a document with checks and no (or empty) runs gives
\* exactly one run, named Run1, holding the checks of the document in order
C10_ChecksBecomeRun1 ==
    (Hydrated /\ ChecksOnly(cfgOut.before) /\ cfgOut.err = NoErr) =>
        /\ Len(cfgOut.runs) = 1
        /\ cfgOut.runs[1].name = Run1Name
        /\ AllInline(cfgOut.before.checks.items) =>
              CheckNames(cfgOut.runs[1].checks) = CheckNames(cfgOut.before.checks.items)

\* two inline checks and no runs: one run holding both, in order
C10_Witness ==
    /\ Hydrated
    /\ cfgOut.err = NoErr
    /\ cfgOut.before.runs = Undefined
    /\ cfgOut.before.checks # Undefined
    /\ AllInline(cfgOut.before.checks.items)
    /\ Len(cfgOut.runs) = 1
    /\ CheckNames(cfgOut.runs[1].checks) = <<NameC1, NameC2>>

(***************************************************************************)
(* Claims about repeated calls                                             *)
(***************************************************************************)

BuilderOps == {"hydrateConfig", "parseToStructured"}

\* the last two calls are the same builder operation on the one document
\* object, and the first succeeded without a fetch
SecondOfTwoLiteral ==
    /\ cfgPrev.op \in BuilderOps
    /\ cfgOut.op = cfgPrev.op
    /\ cfgPrev.err = NoErr
    /\ cfgPrev.fetched = <<>>

\* C11: a second hydrateConfig (or parseToStructured) of a literal document
\* object on which the first succeeded also succeeds, with a deep-equal result
C11_TwiceSameGraph ==
    SecondOfTwoLiteral =>
        /\ cfgOut.err = NoErr
        /\ cfgOut.runs = cfgPrev.runs

\* C32: hydrateConfig leaves the document object it is given as it was: its
\* top-level runs and checks, and with them the rules of every inline rule
\* set, are the same after the call as before it
C32_InputUnchanged ==
    Hydrated =>
        /\ doc.runs = cfgOut.before.runs
        /\ doc.checks = cfgOut.before.checks

(***************************************************************************)
(* Claims about the structured graph                                       *)
(***************************************************************************)

Parsed == cfgOut.op = "parseToStructured"

\* the entries of the rules arrays of the hydrated runs
HydratedRules(runs) ==
    Flatten([i \in DOMAIN AllChecks(runs) |-> OrEmpty(AllChecks(runs)[i].rules)])

HydratedActions(runs) ==
    Flatten([i \in DOMAIN AllChecks(runs) |-> OrEmpty(AllChecks(runs)[i].actions)])

\* the strings among the entries of a rules array, at any depth
RECURSIVE RuleStrings(_)
RuleStrings(rs) ==
    IF rs = <<>> THEN {}
    ELSE (CASE Head(rs).t = "string" -> {Head(rs).s}
            [] Head(rs).t = "set" -> RuleStrings(Head(rs).rules)
            [] OTHER -> {}) \cup RuleStrings(Tail(rs))

\* the lower-cased names of the inline rules of a rules array, at any depth
RECURSIVE RuleNames(_)
RuleNames(rs) ==
    IF rs = <<>> THEN {}
    ELSE (CASE Head(rs).t = "rule" ->
                 IF Head(rs).name # NoName THEN {toLowerCase(Head(rs).name)} ELSE {}
            [] Head(rs).t = "set" -> RuleNames(Head(rs).rules)
            [] OTHER -> {}) \cup RuleNames(Tail(rs))

UnresolvedRules(runs) ==
    {str \in RuleStrings(HydratedRules(runs)) :
        toLowerCase(str) \notin RuleNames(HydratedRules(runs))}

UnresolvedActions(runs) ==
    {str \in RuleStrings(HydratedActions(runs)) :
        toLowerCase(str) \notin
            {toLowerCase(a.name) :
                a \in {b \in {HydratedActions(runs)[i] : i \in DOMAIN HydratedActions(runs)} :
                          b.t = "action" /\ b.name # NoName}}}

UnresolvedErrors(runs) ==
    {NoNamedRule(str) : str \in UnresolvedRules(runs)}
    \cup {NoNamedAction(str) : str \in UnresolvedActions(runs)}

\* errors thrown for another reason than a reference to an entity
OtherErrorKinds ==
    { "Rule names must be unique", "Actions names must be unique",
      "names for filters must be unique", "No named criteria with the name" }

\* every string of a hydrated rules array has, at its place in the structured
\* array, the rule of that name, case ignored
RECURSIVE ResolvedByName(_, _)
ResolvedByName(hydratedRules, strongRules) ==
    /\ Len(hydratedRules) = Len(strongRules)
    /\ \A i \in DOMAIN hydratedRules :
          CASE hydratedRules[i].t = "string" ->
                   /\ strongRules[i].t \in {"rule", "action"}
                   /\ toLowerCase(strongRules[i].name) = toLowerCase(hydratedRules[i].s)
            [] hydratedRules[i].t = "set" ->
                   /\ strongRules[i].t = "set"
                   /\ ResolvedByName(hydratedRules[i].rules, strongRules[i].rules)
            [] OTHER -> strongRules[i].t = hydratedRules[i].t

GraphResolvedByName(hydratedRuns, strongRuns) ==
    /\ Len(AllChecks(hydratedRuns)) = Len(AllChecks(strongRuns))
    /\ \A i \in DOMAIN AllChecks(hydratedRuns) :
          /\ ResolvedByName(OrEmpty(AllChecks(hydratedRuns)[i].rules),
                            AllChecks(strongRuns)[i].rules.items)
          /\ ResolvedByName(OrEmpty(AllChecks(hydratedRuns)[i].actions),
                            AllChecks(strongRuns)[i].actions.items)

\* C7: parseToStructured of a document with a string rule or action reference
\* that no named rule or action of the document matches fails, returns no
\* graph, and the error names such a reference; a reference that matches a
\* defined name ignoring case is never reported, and in a returned graph stands
\* the entity of that name
C7_UnresolvedReferenceNamed ==
    Parsed =>
        /\ (cfgOut.hydrated # <<>> /\ UnresolvedErrors(cfgOut.hydrated) # {}) =>
              /\ cfgOut.err # NoErr
              /\ cfgOut.runs = <<>>
              /\ cfgOut.err.e \notin OtherErrorKinds =>
                    cfgOut.err \in UnresolvedErrors(cfgOut.hydrated)
        /\ cfgOut.err.e \in {NoNamedRule(NameZ).e, NoNamedAction(NameZ).e} =>
              /\ cfgOut.err \in UnresolvedErrors(cfgOut.hydrated)
              /\ cfgOut.runs = <<>>
        /\ cfgOut.err = NoErr => GraphResolvedByName(cfgOut.hydrated, cfgOut.runs)

\* the reference z of a rule set is reported although sp is resolved before it
C7_Witness ==
    /\ Parsed
    /\ cfgOut.err = NoNamedRule(NameZ)
    /\ cfgOut.runs = <<>>
    /\ Namesp \in RuleStrings(HydratedRules(cfgOut.hydrated))
    /\ Namesp \notin UnresolvedRules(cfgOut.hydrated)

\* an entry of a filter list, of a rules or of an actions array that is
\* neither undefined nor a string
Entity(x) == IF x = Undefined THEN FALSE ELSE x.t # "string"

\* a filter field without a string or an undefined entry
FilterNameFree(field) ==
    IF field = Undefined
    THEN TRUE
    ELSE IF field.f = "array"
         THEN \A i \in DOMAIN field.items : Entity(field.items[i])
         ELSE /\ \A i \in DOMAIN OrEmpty(field.include) : Entity(OrEmpty(field.include)[i])
              /\ \A i \in DOMAIN OrEmpty(field.exclude) : Entity(OrEmpty(field.exclude)[i])

FiltersNameFree(x) == FilterNameFree(x.authorIs) /\ FilterNameFree(x.itemIs)

RECURSIVE RulesNameFree(_)
RulesNameFree(rs) ==
    \A i \in DOMAIN rs :
        /\ Entity(rs[i])
        /\ rs[i].t = "set" => RulesNameFree(rs[i].rules)
        /\ rs[i].t = "rule" =>
              /\ FiltersNameFree(rs[i])
              /\ rs[i].kind = "author" =>
                    FilterNameFree(rs[i].include) /\ FilterNameFree(rs[i].exclude)

NameFree(runs) ==
    \A i \in DOMAIN runs :
        /\ FiltersNameFree(runs[i])
        /\ \A j \in DOMAIN runs[i].checks :
              LET c == runs[i].checks[j]
              IN /\ FiltersNameFree(c)
                 /\ RulesNameFree(c.rules.items)
                 /\ \A k \in DOMAIN c.actions.items :
                       Entity(c.actions.items[k]) /\ FiltersNameFree(c.actions.items[k])

\* C8: a graph returned by parseToStructured holds no string and no undefined
\* entry in any rules array, actions array or filter list
C8_GraphNameFree ==
    (Parsed /\ cfgOut.err = NoErr) => NameFree(cfgOut.runs)

(***************************************************************************)
(* Claims about the effective filters of a check                           *)
(***************************************************************************)

\* y is what composing the inline criteria x gives: x itself when it bears a
\* name, {criteria: x} otherwise
KeptAs(x, y) ==
    /\ Entity(y)
    /\ y.criteria = x.criteria
    /\ asNamedCriteria(x) => y = x

\* the list eff has one entry for each entry of the list own, the inline
\* criteria of own at their places
EntriesFrom(own, eff) ==
    /\ Len(eff) = Len(own)
    /\ \A k \in DOMAIN own : own[k].t # "string" => KeptAs(own[k], eff[k])

OptEntriesFrom(own, eff) ==
    IF own = Undefined
    THEN eff = Undefined
    ELSE eff # Undefined /\ EntriesFrom(own.items, eff.items)

\* the filter field eff is the composed form of the filter field own and
\* holds nothing else
FieldFrom(own, eff) ==
    IF own.f = "array"
    THEN eff.f = "array" /\ EntriesFrom(own.items, eff.items)
    ELSE /\ eff.f = "filter"
         /\ OptEntriesFrom(own.include, eff.include)
         /\ OptEntriesFrom(own.exclude, eff.exclude)

\* the places of the checks of the hydrated runs
CheckPlaces ==
    UNION { {<<i, j>> : j \in DOMAIN cfgOut.hydrated[i].checks} : i \in DOMAIN cfgOut.hydrated }

HydratedCheck(pl) == cfgOut.hydrated[pl[1]].checks[pl[2]]

StrongCheck(pl) == cfgOut.runs[pl[1]].checks[pl[2]]

\* C12: in a graph returned by parseToStructured, a check that defines its own
\* authorIs (itemIs) has that filter, composed, as its effective authorIs
\* (itemIs), with nothing of any filterCriteriaDefaults in it
C12_OwnFilterWins ==
    (Parsed /\ cfgOut.err = NoErr) =>
        \A pl \in CheckPlaces :
            /\ HydratedCheck(pl).authorIs # Undefined =>
                  FieldFrom(HydratedCheck(pl).authorIs, StrongCheck(pl).authorIs)
            /\ HydratedCheck(pl).itemIs # Undefined =>
                  FieldFrom(HydratedCheck(pl).itemIs, StrongCheck(pl).itemIs)

\* a check with an anonymous authorIs of its own in a run whose
\* filterCriteriaDefaults define another authorIs
C12_Witness ==
    /\ Parsed
    /\ cfgOut.err = NoErr
    /\ \E pl \in CheckPlaces :
          /\ HydratedCheck(pl).authorIs = Arr(<<AnonCriteria("new")>>)
          /\ cfgOut.hydrated[pl[1]].filterCriteriaDefaults # Undefined
          /\ cfgOut.hydrated[pl[1]].filterCriteriaDefaults.authorIs
                = Arr(<<NamedCriteria(Namesp, "mod")>>)
          /\ StrongCheck(pl).authorIs = Arr(<<NamedCriteria(NoName, "new")>>)

\* the filterCriteriaDefaults levels of the check at pl, nearest first: of
\* its run, of the document, of the caller
DefaultLevels(pl) ==
    <<cfgOut.hydrated[pl[1]].filterCriteriaDefaults,
      cfgOut.before.filterCriteriaDefaults,
      bot.filterCriteriaDefaults>>

FieldOf(fcd, field) == IF field = "authorIs" THEN OptAuthorIs(fcd) ELSE OptItemIs(fcd)

\* the nearest level that defines the field, 0 when none does
RECURSIVE NearestFrom(_, _, _)
NearestFrom(levels, field, n) ==
    IF n > Len(levels)
    THEN 0
    ELSE IF FieldOf(levels[n], field) # Undefined
         THEN n
         ELSE NearestFrom(levels, field, n + 1)

\* the field of a check that does not define it is that of the nearest level
\* defining it, and undefined when no level does
InheritedFrom(pl, field) ==
    LET n == NearestFrom(DefaultLevels(pl), field, 1)
        eff == FieldOf(StrongCheck(pl), field)
    IN IF n = 0
       THEN eff = Undefined
       ELSE eff # Undefined /\ FieldFrom(FieldOf(DefaultLevels(pl)[n], field), eff)

\* C13: in a graph returned by parseToStructured, a filter field a check does
\* not define is, field by field, that of the run's filterCriteriaDefaults if
\* they define it, else that of the document's, else that of the caller's
C13_NearestLevelPerField ==
    (Parsed /\ cfgOut.err = NoErr) =>
        \A pl \in CheckPlaces : \A field \in {"authorIs", "itemIs"} :
            FieldOf(HydratedCheck(pl), field) = Undefined => InheritedFrom(pl, field)

(***************************************************************************)
(* Claims about the registries of named criteria                           *)
(***************************************************************************)

Extracted == cfgOut.op = "extractNamedFilters"

\* the rules of a rules array that can bear filters: the inline rules and the
\* inline rules of the rule sets
RuleHolders(rs) ==
    Flatten([k \in DOMAIN rs |->
        IF rs[k].t = "rule"
        THEN <<rs[k]>>
        ELSE IF rs[k].t = "set"
             THEN SelectSeq(rs[k].rules, LAMBDA r : r.t = "rule")
             ELSE <<>>])

CheckHolders(c) ==
    <<c>> \o RuleHolders(OrEmpty(c.rules))
          \o SelectSeq(OrEmpty(c.actions), LAMBDA a : a.t = "action")

Present(x) == IF x = Undefined THEN <<>> ELSE <<x>>

RunHolders(r) ==
    <<r>> \o Present(r.filterCriteriaDefaults)
          \o Flatten([j \in DOMAIN r.checks |-> CheckHolders(r.checks[j])])

\* every object of a hydrated document that can bear authorIs and itemIs:
\* the document's filterCriteriaDefaults, the runs, their
\* filterCriteriaDefaults, the checks, the rules, the rules of rule sets, the
\* actions
FilterHolders(filterCriteriaDefaults, runs) ==
    Present(filterCriteriaDefaults)
    \o Flatten([i \in DOMAIN runs |-> RunHolders(runs[i])])

FieldEntries(field) ==
    IF field = Undefined
    THEN <<>>
    ELSE IF field.f = "array"
         THEN field.items
         ELSE OrEmpty(field.include) \o OrEmpty(field.exclude)

\* the criteria bearing a name among the entries of a filter field
NamedOf(field) ==
    { FieldEntries(field)[k] : k \in { n \in DOMAIN FieldEntries(field) :
          /\ FieldEntries(field)[n].t = "named"
          /\ FieldEntries(field)[n].name # NoName } }

\* the named criteria of one kind that occur in the document extracted from
NamedAt(field) ==
    LET holders == FilterHolders(cfgOut.before.filterCriteriaDefaults, cfgOut.hydrated)
    IN UNION { NamedOf(FieldOf(holders[k], field)) : k \in DOMAIN holders }

\* two criteria of the document bear the same name, case aside, and differ
TrueConflict(field) ==
    \E a, b \in NamedAt(field) :
        toLowerCase(a.name) = toLowerCase(b.name) /\ a.criteria # b.criteria

\* C14: extractNamedFilters fails only when two named criteria of one kind
\* bear the same name, case aside, and differ; a document whose named criteria
\* are all equal is extracted without error
C14_CriteriaConflictRule ==
    Extracted =>
        (cfgOut.err # NoErr <=> (TrueConflict("authorIs") \/ TrueConflict("itemIs")))

\* the registry of one kind holds c under its lower-cased name
Registered(registry, c) ==
    /\ MapHas(registry, toLowerCase(c.name))
    /\ MapGet(registry, toLowerCase(c.name)) = c

\* C15: after extractNamedFilters succeeds, every named authorIs criteria of
\* the document is in the author registry and every named itemIs criteria in
\* the item registry, wherever it occurs
C15_EveryNamedCriteriaRegistered ==
    (Extracted /\ cfgOut.err = NoErr) =>
        /\ \A c \in NamedAt("authorIs") : Registered(cfgOut.ret.authors, c)
        /\ \A c \in NamedAt("itemIs") : Registered(cfgOut.ret.items, c)

(***************************************************************************)
(* Claims about the composition of a filter field                          *)
(***************************************************************************)

\* the registries parseToStructured composes with: those extractNamedFilters
\* builds from the hydrated document
BuiltRegistry(field) ==
    LET built == extractNamedFilters(cfgOut.before.filterCriteriaDefaults, cfgOut.hydrated)
    IN IF field = "authorIs" THEN built.authors ELSE built.items

\* y stands for the entry x of a filter list: the criteria registered under
\* the name x refers to, case aside, or the inline criteria x itself
ComposedEntry(registry, x, y) ==
    IF x.t = "string"
    THEN /\ MapHas(registry, toLowerCase(x.s))
         /\ y = MapGet(registry, toLowerCase(x.s))
    ELSE KeptAs(x, y)

ComposedEntries(registry, own, eff) ==
    /\ Len(eff) = Len(own)
    /\ \A k \in DOMAIN own : ComposedEntry(registry, own[k], eff[k])

OptComposedEntries(registry, own, eff) ==
    IF own = Undefined
    THEN eff = Undefined
    ELSE eff # Undefined /\ ComposedEntries(registry, own.items, eff.items)

\* eff is the filter field own with every entry composed
ComposedField(registry, own, eff) ==
    IF own = Undefined
    THEN eff = Undefined
    ELSE IF own.f = "array"
         THEN eff.f = "array" /\ ComposedEntries(registry, own.items, eff.items)
         ELSE /\ eff.f = "filter"
              /\ OptComposedEntries(registry, own.include, eff.include)
              /\ OptComposedEntries(registry, own.exclude, eff.exclude)

\* the inline rules and actions of the hydrated check at pl, each with the
\* entity that stands at its place in the graph
ComposedPairs(pl) ==
    { <<OrEmpty(HydratedCheck(pl).rules)[k], StrongCheck(pl).rules.items[k]>> :
        k \in { n \in DOMAIN OrEmpty(HydratedCheck(pl).rules) :
                  OrEmpty(HydratedCheck(pl).rules)[n].t = "rule" } }
    \cup
    { <<OrEmpty(HydratedCheck(pl).actions)[k], StrongCheck(pl).actions.items[k]>> :
        k \in { n \in DOMAIN OrEmpty(HydratedCheck(pl).actions) :
                  OrEmpty(HydratedCheck(pl).actions)[n].t = "action" } }

\* a reference, in a filter field of the hydrated document, to a name that is
\* in no registry
DanglingReference(field) ==
    LET holders == FilterHolders(cfgOut.before.filterCriteriaDefaults, cfgOut.hydrated)
    IN \E h \in DOMAIN holders :
          \E k \in DOMAIN FieldEntries(FieldOf(holders[h], field)) :
             LET x == FieldEntries(FieldOf(holders[h], field))[k]
             IN x.t = "string" /\ ~MapHas(BuiltRegistry(field), toLowerCase(x.s))

\* C16: in a graph returned by parseToStructured the authorIs and the itemIs
\* of every inline rule and action is its own filter with each reference
\* replaced by the criteria registered under that name, case aside, and each
\* inline criteria kept; a document with a reference to no registered name
\* gives no graph
C16_ReferencesComposed ==
    Parsed =>
        /\ cfgOut.err = NoErr =>
              \A pl \in CheckPlaces : \A pair \in ComposedPairs(pl) :
                  \A field \in {"authorIs", "itemIs"} :
                      ComposedField(BuiltRegistry(field), FieldOf(pair[1], field),
                                    FieldOf(pair[2], field))
        /\ (cfgOut.hydrated # <<>> /\ \E field \in {"authorIs", "itemIs"} :
                                          DanglingReference(field)) =>
              cfgOut.err # NoErr

(***************************************************************************)
(* Claims about failing fragments                                          *)
(***************************************************************************)

Built == cfgOut.op \in BuilderOps

\* the places, in the list of the fetches of the last call, of the fragments
\* that could not be fetched, parsed or validated
FailedFetches == { k \in DOMAIN cfgOut.fetched : ~cfgOut.fetched[k].ok }

RuleLevelErrors ==
    {RuleFragmentError(0, 0, NoErr).e, ActionFragmentError(0, 0, NoErr).e}

CheckLevelErrors == {CheckFragmentError(0, 0, NoErr).e}

RunLevelErrors == {RunFragmentError(0, NoErr).e}

\* the error names the 1-based position of the fragment at its own level and
\* at every level that encloses it
CarriesPosition(err) ==
    /\ err.e \in RuleLevelErrors \cup CheckLevelErrors \cup RunLevelErrors
    /\ err.run >= 1
    /\ err.e \in RuleLevelErrors \cup CheckLevelErrors => err.check >= 1
    /\ err.e \in RuleLevelErrors => err.rule >= 1

\* C18: the error hydrateConfig throws for a failing fragment carries the
\* position of the fragment at every enclosing level (Run #, Check #, Rule #),
\* and the failing fragment is fetched once and nothing after it
C18_FailureCarriesPosition ==
    Hydrated =>
        \A k \in FailedFetches :
            /\ CarriesPosition(cfgOut.err)
            /\ k = Len(cfgOut.fetched)
            /\ \A j \in FailedFetches : j = k

(***************************************************************************)
(* Claims about hydrateConfigFragment                                      *)
(***************************************************************************)

Fragmented == cfgOut.op = "hydrateConfigFragment"

\* an array, an object that is no include descriptor, a string that is no
\* url: or wiki: reference
LiteralValue(val) ==
    \/ IsArray(val)
    \/ val.t \notin {"include", "string"}
    \/ val.t = "string" /\ ~parseUrlContext(val.s)

\* the last call was handed a validateFunc and had a value to hand to it: a
\* literal, or a fragment that could be fetched
ValidateDue ==
    /\ Fragmented
    /\ cfgOut.ret.validateFunc # "none"
    /\ \/ LiteralValue(cfgOut.ret.val)
       \/ cfgOut.fetched # <<>> /\ Remote(cfgOut.fetched[1].path).ok

\* C19: hydrateConfigFragment calls the validateFunc it is handed once on
\* every call, with fetched = true for a fetched fragment and fetched = false
\* for a literal
C19_ValidateAlwaysInvoked ==
    ValidateDue => cfgOut.ret.validated = <<~LiteralValue(cfgOut.ret.val)>>

\* C20: for a literal value hydrateConfigFragment fetches nothing, throws
\* nothing and returns the value: an array as itself, anything else as the
\* only entry of a list
C20_LiteralPassesThrough ==
    (Fragmented /\ LiteralValue(cfgOut.ret.val)) =>
        /\ cfgOut.fetched = <<>>
        /\ cfgOut.err = NoErr
        /\ IsArray(cfgOut.ret.val) => cfgOut.ret.vals = cfgOut.ret.val.items
        /\ ~IsArray(cfgOut.ret.val) => cfgOut.ret.vals = <<cfgOut.ret.val>>

\* an array holding a fragment reference is returned as it is, unfetched,
\* after a call that fetched a fragment
C20_Witness ==
    /\ Fragmented
    /\ cfgOut.ret.val = Arr(<<StrRef(WikiRule)>>)
    /\ cfgOut.ret.vals = <<StrRef(WikiRule)>>
    /\ cfgOut.fetched = <<>>
    /\ cfgPrev.op = "hydrateConfigFragment"
    /\ cfgPrev.fetched # <<>>

(***************************************************************************)
(* Claims about the order of the fetches                                   *)
(***************************************************************************)

\* the path fetched for a value: none for a literal
FetchOf(val) ==
    IF IsArray(val) THEN <<>>
    ELSE IF val.t = "include" /\ parseUrlContext(val.path) THEN <<val.path>>
    ELSE IF val.t = "string" /\ parseUrlContext(val.s) THEN <<val.s>>
    ELSE <<>>

\* the entries a value of the document stands for
StandsFor(val) ==
    IF FetchOf(val) # <<>> THEN Remote(FetchOf(val)[1]).data
    ELSE IF IsArray(val) THEN val.items ELSE <<val>>

RECURSIVE Concat(_)
Concat(seqs) == IF seqs = <<>> THEN <<>> ELSE Head(seqs) \o Concat(Tail(seqs))

\* the references among the members of a rule set
SetOrder(h) ==
    IF h.t = "set" THEN Concat([i \in DOMAIN h.rules |-> FetchOf(h.rules[i])]) ELSE <<>>

\* a rule entry: its own reference, then the members of each rule set it
\* stands for
RuleOrder(r) ==
    FetchOf(r) \o Concat([i \in DOMAIN StandsFor(r) |-> SetOrder(StandsFor(r)[i])])

\* a check object: its rule entries, then its action entries
CheckBodyOrder(c) ==
    IF c.t # "check" THEN <<>>
    ELSE Concat([i \in DOMAIN OrEmpty(c.rules) |-> RuleOrder(OrEmpty(c.rules)[i])])
         \o Concat([i \in DOMAIN OrEmpty(c.actions) |-> FetchOf(OrEmpty(c.actions)[i])])

\* a check entry: its own reference, then each check it stands for
CheckOrder(c) ==
    FetchOf(c) \o Concat([i \in DOMAIN StandsFor(c) |-> CheckBodyOrder(StandsFor(c)[i])])

RunBodyOrder(r) ==
    IF r.t # "run" THEN <<>>
    ELSE Concat([i \in DOMAIN r.checks |-> CheckOrder(r.checks[i])])

\* a run entry: its own reference, then each run it stands for
RunOrder(r) ==
    FetchOf(r) \o Concat([i \in DOMAIN StandsFor(r) |-> RunBodyOrder(StandsFor(r)[i])])

\* the references of a document in depth-first document order
DocumentOrder(config) ==
    Concat([i \in DOMAIN RealRuns(OrEmpty(config.checks), OrEmpty(config.runs)) |->
              RunOrder(RealRuns(OrEmpty(config.checks), OrEmpty(config.runs))[i])])

FetchedPaths == [k \in DOMAIN cfgOut.fetched |-> cfgOut.fetched[k].path]

IsPrefix(s, t) == Len(s) <= Len(t) /\ SubSeq(t, 1, Len(s)) = s

\* C21: the fetches of one hydrateConfig call are made one at a time, each
\* one having returned before the next is issued, in depth-first document
\* order: a run, then each of its checks with the check's rules (the members
\* of a rule set right after the set) and then its actions
C21_FetchesInDocumentOrder ==
    Built =>
        /\ IsPrefix(FetchedPaths, DocumentOrder(cfgOut.before))
        /\ cfgOut.err = NoErr => FetchedPaths = DocumentOrder(cfgOut.before)
        /\ \A k \in DOMAIN cfgOut.fetched :
              k < Len(cfgOut.fetched) => cfgOut.fetched[k].ok

\* a call that fetched a check, the rule of the fetched check, then for the
\* next check a list of rules, the member of a rule set and an action
C21_Witness ==
    /\ Built
    /\ cfgOut.err = NoErr
    /\ FetchedPaths = <<WikiCheck, WikiRule, WikiRules, WikiRule, WikiAction>>

(***************************************************************************)
(* Claims about the order of the structured graph                          *)
(***************************************************************************)

\* the entries a list of values stands for: each value replaced, where it
\* stands, by the entries it stands for
ExpandAll(vals) == Concat([i \in DOMAIN vals |-> StandsFor(vals[i])])

\* what tells one rule or action from another: the lower-cased name of a
\* named one or of a reference by name, the kind and configuration of one
\* without a name, the members of a rule set
RECURSIVE Mark(_)
Mark(x) ==
    CASE x.t = "string" -> <<"named", toLowerCase(x.s)>>
      [] x.t = "set" -> <<"set", x.condition, [i \in DOMAIN x.rules |-> Mark(x.rules[i])]>>
      [] OTHER -> IF x.name # NoName
                  THEN <<"named", toLowerCase(x.name)>>
                  ELSE <<"anon", x.t, x.kind, x.config>>

Marks(xs) == [i \in DOMAIN xs |-> Mark(xs[i])]

\* a rule entry of the document: the members of a rule set are expanded
DeclaredRule(e) ==
    IF e.t = "set" THEN Mark([e EXCEPT !.rules = ExpandAll(e.rules)]) ELSE Mark(e)

DeclaredCheck(c) ==
    [name |-> c.name,
     rules |-> [i \in DOMAIN ExpandAll(OrEmpty(c.rules)) |->
                  DeclaredRule(ExpandAll(OrEmpty(c.rules))[i])],
     actions |-> Marks(ExpandAll(OrEmpty(c.actions)))]

DeclaredRun(r) ==
    [name |-> r.name,
     checks |-> [i \in DOMAIN ExpandAll(r.checks) |-> DeclaredCheck(ExpandAll(r.checks)[i])]]

\* the order the document declares
DeclaredOrder(config) ==
    LET runs == ExpandAll(RealRuns(OrEmpty(config.checks), OrEmpty(config.runs)))
    IN [i \in DOMAIN runs |-> DeclaredRun(runs[i])]

\* the order of the structured graph
GraphOrder(runs) ==
    [i \in DOMAIN runs |->
        [name |-> runs[i].name,
         checks |-> [j \in DOMAIN runs[i].checks |->
                       [name |-> runs[i].checks[j].name,
                        rules |-> Marks(runs[i].checks[j].rules.items),
                        actions |-> Marks(runs[i].checks[j].actions.items)]]]]

\* C30: the structured graph keeps the declared order: its runs, the checks
\* of each run, the rules of each check and of each rule set and the
\* actions of each check stand in the order of the input document, the
\* entries of a fetched fragment, in their own order, where the reference
\* stood
C30_GraphKeepsDeclaredOrder ==
    (Parsed /\ cfgOut.err = NoErr) => GraphOrder(cfgOut.runs) = DeclaredOrder(cfgOut.before)

\* a fetched list of two rules stands, in its order, before the rule set
\* that followed the reference, the member fetched for the set in it, and
\* the fetched action before the action that followed its reference
C30_Witness ==
    /\ Parsed
    /\ cfgOut.err = NoErr
    /\ Len(cfgOut.fetched) > 0
    /\ \E i \in DOMAIN cfgOut.runs : \E j \in DOMAIN cfgOut.runs[i].checks :
          LET c == cfgOut.runs[i].checks[j]
          IN /\ j > 1
             /\ Marks(c.rules.items) =
                    << <<"named", Namesp>>, <<"named", NameOther>>,
                       <<"set", "OR", << <<"named", NameOther>> >> >> >>
             /\ Marks(c.actions.items) =
                    << <<"anon", "action", "remove", "cfg1">>, <<"named", Namesp>> >>

\* the value the hierarchy of defaults gives: the check's own, else the
\* run's, else the one of the caller
OwnFirst(own, ofRun, ofCaller) == Coalesce(own, Coalesce(ofRun, ofCaller))

\* C33: in the structured graph a check has its own postFail / postTrigger
\* when it defines one, else the one of its run, else the one of
\* postCheckBehaviorDefaults handed in by the caller
C33_CheckBehaviorFirst ==
    (Parsed /\ cfgOut.err = NoErr) =>
        \A i \in DOMAIN cfgOut.runs : \A j \in DOMAIN cfgOut.runs[i].checks :
            LET r == cfgOut.hydrated[i]
                c == r.checks[j]
                strongCheck == cfgOut.runs[i].checks[j]
            IN /\ strongCheck.postFail =
                     OwnFirst(c.postFail, r.postFail, bot.postCheckBehaviorDefaults.postFail)
               /\ strongCheck.postTrigger =
                     OwnFirst(c.postTrigger, r.postTrigger,
                              bot.postCheckBehaviorDefaults.postTrigger)

(***************************************************************************)
(* PART 5.  The resource cache (Subreddit/SubredditResources.ts)           *)
(***************************************************************************)

\* Bound: a positive time to live
SomeTTL == 1

\* Bound: number of resource calls begun
MaxOps == 2

\* WIKI_DESCRIM
WikiDescrim == "wiki:"

\* an options object holds the properties that are given; one with none
NoOptions == <<>>

\* the constructor with enabled taken from the options alone
SubredditResourcesCtorOwnEnabled(name, options, mgr) ==
    [name |-> name,
     enabled |-> IF "enabled" \in DOMAIN options THEN options.enabled ELSE TRUE,
     useSubredditAuthorCache |-> "authorTTL" \in DOMAIN options,
     authorTTL |-> IF "authorTTL" \in DOMAIN options THEN options.authorTTL
                   ELSE mgr.authorTTL,
     wikiTTL |-> IF "wikiTTL" \in DOMAIN options THEN options.wikiTTL ELSE SomeTTL]

\* new SubredditResources(name, options), lines 35-53: the fields the calls
\* read.  wikiTTL defaults to five minutes, a positive time
SubredditResourcesCtor(name, options, mgr) ==
    [name |-> name,
     enabled |-> IF mgr.enabled
                 THEN (IF "enabled" \in DOMAIN options THEN options.enabled ELSE TRUE)
                 ELSE FALSE,
     useSubredditAuthorCache |-> "authorTTL" \in DOMAIN options,
     authorTTL |-> IF "authorTTL" \in DOMAIN options THEN options.authorTTL
                   ELSE mgr.authorTTL,
     wikiTTL |-> IF "wikiTTL" \in DOMAIN options THEN options.wikiTTL ELSE SomeTTL]

\* memory-cache get(key): the entry of the key whose time is not up, if any
Live(key) == {e \in cache : e.key = key}

\* memory-cache put(key, value, time) in a call of the instance named by
\* with the arguments args: the entry replaces the one of the same key; its
\* time starts now
CachePut(key, value, time, by, args) ==
    {e \in cache : e.key # key}
        \cup {[key |-> key, value |-> value, time |-> time, by |-> by, args |-> args]}

\* {...options, userName}
WithUserName(options, userName) == ("userName" :> userName) @@ options

\* hashObj of getAuthorActivities, lines 71-74
AuthorHashObj(self, options, userName) ==
    IF self.useSubredditAuthorCache
    THEN ("subreddit" :> self.name) @@ WithUserName(options, userName)
    ELSE WithUserName(options, userName)

\* the key of getAuthorActivities, line 75: the digest of a second
\* {...options, userName}, not of hashObj
AuthorHash(self, options, userName) == sha1(WithUserName(options, userName))

\* the key of testAuthorCriteria without the include mode
CriteriaHashNoInclude(itemId, authorOpts, include) ==
    <<"authorCrit-", sha1(authorOpts @@ ("itemId" :> itemId))>>

\* the key of testAuthorCriteria, lines 142-143: itemId, then the criteria,
\* then include, a later property replacing an earlier one of the same name
CriteriaHash(itemId, authorOpts, include) ==
    <<"authorCrit-", sha1(("include" :> include) @@ authorOpts @@ ("itemId" :> itemId))>>

\* String.prototype.trim
RECURSIVE TrimStart(_)
TrimStart(str) ==
    IF str # <<>> /\ Head(str) = " " THEN TrimStart(Tail(str)) ELSE str

RECURSIVE TrimEnd(_)
TrimEnd(str) ==
    IF str # <<>> /\ str[Len(str)] = " " THEN TrimEnd(SubSeq(str, 1, Len(str) - 1)) ELSE str

Trim(str) == TrimEnd(TrimStart(str))

\* val.trim().substring(0, WIKI_DESCRIM.length) === WIKI_DESCRIM
HasWiki(val) == Trim(val) # <<>> /\ Head(Trim(val)) = WikiDescrim

\* val.trim().substring(WIKI_DESCRIM.length)
WikiPath(val) == Tail(Trim(val))

\* `${subreddit.display_name}-${wikiPath}`
ContentHash(displayName, wikiPath) == displayName \o <<"-">> \o wikiPath

\* a call: what it was asked, the key it used, the calls that were suspended
\* when it began, whether an entry of its key had run out of time by then,
\* what it did to the cache and upstream, what it returned
Call(id, op, inst, args, key, useCache) ==
    [id |-> id, op |-> op, inst |-> inst, args |-> args, key |-> key,
     useCache |-> useCache,
     during |-> {p.id : p \in pending},
     lapsed |-> key \in lapsed,
     reads |-> 0, hit |-> FALSE, from |-> <<>>, live |-> 0, writes |-> 0,
     value |-> <<>>, threw |-> FALSE]

\* the call has ended: it is noted, and the last two calls are kept
Noted(call) == IF Len(finished) < 2 THEN Append(finished, call) ELSE <<finished[2], call>>

\* the callers: each makes one call at a time
Callers == {"first", "second"}

\* a caller is free and the bound on the calls is not reached
MayBegin == begun < MaxOps /\ Cardinality(pending) < Cardinality(Callers)

\* the call returns the value of the entry it found
ReturnHit(call, entry) ==
    /\ finished' = Noted([call EXCEPT !.reads = 1, !.hit = TRUE,
                                      !.from = <<[by |-> entry.by, args |-> entry.args]>>,
                                      !.value = <<entry.value>>])
    /\ begun' = begun + 1
    /\ UNCHANGED <<workload, manager, resources, cache, lapsed, pending>>

\* the call issues the upstream request and is suspended at its await
Suspend(call) ==
    /\ pending' = pending \cup {[call EXCEPT !.reads = IF call.useCache THEN 1 ELSE 0,
                                             !.live = 1]}
    /\ begun' = begun + 1
    /\ UNCHANGED <<workload, manager, resources, cache, lapsed, finished>>

\* the rest with a put that leaves an entry stored in the meantime alone
ResumeKeepingFirst(call, value, time) ==
    /\ pending' = pending \ {call}
    /\ cache' = IF call.useCache /\ Live(call.key) = {}
                THEN CachePut(call.key, value, time, call.inst, call.args)
                ELSE cache
    /\ lapsed' = IF call.useCache THEN lapsed \ {call.key} ELSE lapsed
    /\ finished' = Noted([call EXCEPT !.value = <<value>>,
                                      !.writes = IF call.useCache THEN 1 ELSE 0])
    /\ UNCHANGED <<workload, manager, resources, begun>>

\* what the rest of the three functions does, after the await: store the
\* value when the cache is in use, then return it
Resume(call, value, time) ==
    /\ pending' = pending \ {call}
    /\ cache' = IF call.useCache
                THEN CachePut(call.key, value, time, call.inst, call.args)
                ELSE cache
    /\ lapsed' = IF call.useCache THEN lapsed \ {call.key} ELSE lapsed
    /\ finished' = Noted([call EXCEPT !.value = <<value>>,
                                      !.writes = IF call.useCache THEN 1 ELSE 0])
    /\ UNCHANGED <<workload, manager, resources, begun>>

\* the users, options, items, criteria, values and subreddits of the calls
UserNames == {"u1"}

ActivityOptions == {[type |-> "comment"], [type |-> "submission"]}

ActivityLists == {<<>>, <<"x">>}

TestArgs ==
    { [itemId |-> "i1", authorOpts |-> [name |-> "n1"], include |-> TRUE],
      [itemId |-> "i2", authorOpts |-> [name |-> "n1"], include |-> TRUE],
      [itemId |-> "i1", authorOpts |-> [flairText |-> "n1"], include |-> TRUE],
      [itemId |-> "i1", authorOpts |-> [name |-> "n1"], include |-> FALSE] }

ContentVals == {<<" ", "h", "i">>, <<"wiki:", "p">>, <<" ", "wiki:", "p">>}

DisplayNames == {<<"a">>, <<"b">>}

WikiTexts == {<<"t">>}

\* getAuthorActivities(user, options), lines 67-85: up to the await
GetAuthorActivitiesBegin ==
    /\ workload = "getAuthorActivities"
    /\ MayBegin
    /\ \E name \in DOMAIN resources, userName \in UserNames, options \in ActivityOptions :
          \E self \in {resources[name]} :
             \E call \in {Call(begun + 1, "getAuthorActivities", name,
                               [userName |-> userName, options |-> options],
                               AuthorHash(self, options, userName),
                               self.enabled /\ self.authorTTL > 0)} :
                IF call.useCache /\ Live(call.key) # {}
                THEN \E entry \in Live(call.key) : ReturnHit(call, entry)
                ELSE Suspend(call)

\* getAuthorActivities, lines 85-90: the upstream answers
GetAuthorActivitiesResume ==
    \E call \in pending, items \in ActivityLists :
       /\ call.op = "getAuthorActivities"
       /\ Resume(call, items, resources[call.inst].authorTTL)

\* testAuthorCriteria(item, authorOpts, include), lines 139-151
TestAuthorCriteriaBegin ==
    /\ workload = "testAuthorCriteria"
    /\ MayBegin
    /\ \E name \in DOMAIN resources, args \in TestArgs :
          \E self \in {resources[name]} :
             \E call \in {Call(begun + 1, "testAuthorCriteria", name, args,
                               CriteriaHash(args.itemId, args.authorOpts, args.include),
                               self.enabled /\ self.authorTTL > 0)} :
                IF call.useCache /\ Live(call.key) # {}
                THEN \E entry \in Live(call.key) : ReturnHit(call, entry)
                ELSE Suspend(call)

\* testAuthorCriteria, lines 151-155
TestAuthorCriteriaResume ==
    \E call \in pending, result \in BOOLEAN :
       /\ call.op = "testAuthorCriteria"
       /\ Resume(call, result, resources[call.inst].authorTTL)

\* getContent(val, subreddit), lines 105-123: a value that is no wiki
\* reference is returned as it is.  The subreddit handed over is the one the
\* instance serves
GetContentBegin ==
    /\ workload = "getContent"
    /\ MayBegin
    /\ \E name \in DOMAIN resources, val \in ContentVals :
          \E self \in {resources[name]}, displayName \in {name} :
             \E call \in {Call(begun + 1, "getContent", name,
                               [val |-> val, subreddit |-> displayName],
                               IF HasWiki(val)
                               THEN ContentHash(displayName, WikiPath(val)) ELSE <<>>,
                               HasWiki(val) /\ self.enabled /\ self.wikiTTL > 0)} :
                IF ~HasWiki(val)
                THEN /\ finished' = Noted([call EXCEPT !.value = <<val>>])
                     /\ begun' = begun + 1
                     /\ UNCHANGED <<workload, manager, resources, cache, lapsed, pending>>
                ELSE IF call.useCache /\ Live(call.key) # {}
                     THEN \E entry \in Live(call.key) : ReturnHit(call, entry)
                     ELSE Suspend(call)

\* getContent, lines 123-129: the wiki page is read
GetContentResume ==
    \E call \in pending, wikiContent \in WikiTexts :
       /\ call.op = "getContent"
       /\ Resume(call, wikiContent, resources[call.inst].wikiTTL)

\* getContent with a catch that stores the message it throws
GetContentFailsStoring ==
    \E call \in pending :
       /\ call.op = "getContent"
       /\ pending' = pending \ {call}
       /\ cache' = CachePut(call.key, <<"Could not read wiki page">>,
                            resources[call.inst].wikiTTL, call.inst, call.args)
       /\ finished' = Noted([call EXCEPT !.threw = TRUE])
       /\ UNCHANGED <<workload, manager, resources, lapsed, begun>>

\* getContent, lines 130-133: the wiki page cannot be read
GetContentFails ==
    \E call \in pending :
       /\ call.op = "getContent"
       /\ pending' = pending \ {call}
       /\ finished' = Noted([call EXCEPT !.threw = TRUE])
       /\ UNCHANGED <<workload, manager, resources, cache, lapsed, begun>>

\* the time of an entry is up: the entry is gone
Expire ==
    \E e \in cache :
       /\ cache' = cache \ {e}
       /\ lapsed' = lapsed \cup {e.key}
       /\ UNCHANGED <<workload, manager, resources, pending, finished, begun>>

\* the settings App hands to the manager, and the options of the two
\* instances: both on the global author cache, both on a cache of their own,
\* one of each, and each way of switching the cache off
Setups ==
    { [mgr |-> [enabled |-> TRUE, authorTTL |-> SomeTTL], a |-> NoOptions, b |-> NoOptions],
      [mgr |-> [enabled |-> TRUE, authorTTL |-> SomeTTL],
       a |-> [authorTTL |-> SomeTTL], b |-> [authorTTL |-> SomeTTL]],
      [mgr |-> [enabled |-> TRUE, authorTTL |-> 0],
       a |-> [authorTTL |-> SomeTTL], b |-> NoOptions],
      [mgr |-> [enabled |-> FALSE, authorTTL |-> SomeTTL],
       a |-> NoOptions, b |-> [authorTTL |-> SomeTTL]],
      [mgr |-> [enabled |-> TRUE, authorTTL |-> SomeTTL],
       a |-> [enabled |-> FALSE], b |-> [wikiTTL |-> 0]],
      [mgr |-> [enabled |-> TRUE, authorTTL |-> SomeTTL],
       a |-> [authorTTL |-> 0], b |-> [enabled |-> TRUE, wikiTTL |-> SomeTTL]] }

\* manager.set(name, options) for each subreddit; the callers of one
\* behaviour use one of the three functions
ResInit ==
    /\ workload \in {"getAuthorActivities", "testAuthorCriteria", "getContent"}
    /\ \E setup \in Setups :
          /\ manager = setup.mgr
          /\ resources = [name \in DisplayNames |->
                            SubredditResourcesCtor(name,
                                IF name = <<"a">> THEN setup.a ELSE setup.b, setup.mgr)]
    /\ cache = {}
    /\ lapsed = {}
    /\ pending = {}
    /\ finished = <<>>
    /\ begun = 0

\* no instance, no call
ResIdle ==
    /\ workload = "none"
    /\ manager = [enabled |-> TRUE, authorTTL |-> 0]
    /\ resources = <<>>
    /\ cache = {}
    /\ lapsed = {}
    /\ pending = {}
    /\ finished = <<>>
    /\ begun = 0

ResNext ==
    /\ \/ GetAuthorActivitiesBegin
       \/ GetAuthorActivitiesResume
       \/ TestAuthorCriteriaBegin
       \/ TestAuthorCriteriaResume
       \/ GetContentBegin
       \/ GetContentResume
       \/ GetContentFails
       \/ Expire
    /\ UNCHANGED <<ruleVars, regVars, cfgVars, sideVars>>

(***************************************************************************)
(* Claims about the resource cache                                         *)
(***************************************************************************)

\* the calls of one function among the last two that have ended
Ended(op) == {k \in DOMAIN finished : finished[k].op = op}

\* the call was made on an instance that has an author cache of its own
Scoped(call) == resources[call.inst].useSubredditAuthorCache

\* C22: an instance configured with an authorTTL of its own keeps its author
\* activities under a key that holds its subreddit name: what
\* getAuthorActivities returns from the cache was stored by the same
\* instance, never by an instance of another name
C22_AuthorCacheScopedBySubreddit ==
    \A k \in Ended("getAuthorActivities") :
        (Scoped(finished[k]) /\ finished[k].hit) =>
            finished[k].from[1].by = finished[k].inst

\* the calls that have begun and that go upstream unless the cache answers
Lookups ==
    {c \in pending \cup {finished[k] : k \in DOMAIN finished} :
        c.op = "getContent" => HasWiki(c.args.val)}

\* the time to live the function of the call goes by
RelevantTTL(c) ==
    IF c.op = "getContent" THEN resources[c.inst].wikiTTL ELSE resources[c.inst].authorTTL

\* caching is off for the call: the manager or the instance is disabled, or
\* the time to live is not positive
CachingOff(c) ==
    \/ ~manager.enabled
    \/ ~resources[c.inst].enabled
    \/ RelevantTTL(c) <= 0

RefersToWiki(val) ==
    \E i \in DOMAIN val : val[i] = "wiki:" /\ \A j \in 1..(i - 1) : val[j] = " "

\* the page the value names
PageOf(val) ==
    LET i == CHOOSE i \in DOMAIN val : val[i] = "wiki:" /\ \A j \in 1..(i - 1) : val[j] = " "
    IN TrimEnd(SubSeq(val, i + 1, Len(val)))

\* the last two calls were made one after the other, with no other call
\* under way during either
OneAfterTheOther ==
    /\ Len(finished) = 2
    /\ finished[1].during = {}
    /\ finished[2].during = {}
    /\ finished[2].id = finished[1].id + 1

\* the last two calls are getContent calls for the same page of the same
\* subreddit, made one after the other, the second with the cache in use
SamePageAgain ==
    /\ OneAfterTheOther
    /\ finished[1].op = "getContent"
    /\ finished[2].op = "getContent"
    /\ RefersToWiki(finished[1].args.val)
    /\ RefersToWiki(finished[2].args.val)
    /\ finished[1].args.subreddit = finished[2].args.subreddit
    /\ PageOf(finished[1].args.val) = PageOf(finished[2].args.val)
    /\ ~CachingOff(finished[2])

\* C24: getContent returns a value that is no wiki reference as it is, with
\* no fetch and no cache access; with the cache in use a second call for the
\* same subreddit and page, made before the entry runs out of time, returns
\* the stored text without a fetch; a failed fetch throws, stores nothing,
\* and the next call fetches again
C24_GetContent ==
    /\ \A k \in Ended("getContent") :
          ~RefersToWiki(finished[k].args.val) =>
              /\ finished[k].value = <<finished[k].args.val>>
              /\ ~finished[k].threw
              /\ finished[k].live = 0
              /\ finished[k].reads = 0
              /\ finished[k].writes = 0
    /\ \A k \in Ended("getContent") :
          finished[k].threw => finished[k].writes = 0 /\ finished[k].value = <<>>
    /\ (SamePageAgain /\ ~finished[1].threw /\ ~finished[2].lapsed) =>
          /\ finished[2].hit
          /\ finished[2].live = 0
          /\ finished[2].value = finished[1].value
    /\ (SamePageAgain /\ finished[1].threw) =>
          /\ ~finished[2].hit
          /\ finished[2].live = 1

\* the second of two calls for the same page returned the text the first had
\* fetched and stored
C24_Witness ==
    /\ SamePageAgain
    /\ finished[1].live = 1
    /\ finished[1].writes = 1
    /\ finished[2].hit
    /\ finished[2].value = <<<<"t">>>>
    /\ finished[1].args.val # finished[2].args.val

\* the last two calls are testAuthorCriteria calls with the same item id,
\* criteria and include mode, made one after the other, both with the cache
\* in use, the second before the entry of the first ran out of time
SameTestAgain ==
    /\ OneAfterTheOther
    /\ finished[1].op = "testAuthorCriteria"
    /\ finished[2].op = "testAuthorCriteria"
    /\ finished[1].args = finished[2].args
    /\ ~CachingOff(finished[1])
    /\ ~CachingOff(finished[2])
    /\ ~finished[2].lapsed

\* C25: with the cache in use, testAuthorCriteria repeated with the same item
\* id, criteria and include mode runs the test once and returns the stored
\* result the second time, also when the result is false; a call never
\* returns a result stored for another item id, other criteria or the other
\* include mode
C25_AuthorTestMemoized ==
    /\ SameTestAgain =>
          /\ finished[2].hit
          /\ finished[2].live = 0
          /\ finished[2].value = finished[1].value
    /\ \A k \in Ended("testAuthorCriteria") :
          finished[k].hit => finished[k].from[1].args = finished[k].args

\* a test that came out false was answered from the cache the second time
C25_Witness ==
    /\ SameTestAgain
    /\ finished[1].live = 1
    /\ finished[1].value = <<FALSE>>
    /\ finished[2].hit
    /\ finished[2].value = <<FALSE>>

\* the last two calls are getAuthorActivities or testAuthorCriteria calls
\* with the same key and the cache in use, and one of them began while the
\* other was suspended at its await
Overlapped ==
    /\ Len(finished) = 2
    /\ finished[1].op \in {"getAuthorActivities", "testAuthorCriteria"}
    /\ finished[2].op = finished[1].op
    /\ finished[1].key = finished[2].key
    /\ ~CachingOff(finished[1])
    /\ ~CachingOff(finished[2])
    /\ \/ finished[1].id \in finished[2].during
       \/ finished[2].id \in finished[1].during

\* C26: of two getAuthorActivities or testAuthorCriteria calls with the same
\* key that overlap, at most one goes upstream and both return the same value
C26_OneFetchForOverlappingCalls ==
    Overlapped =>
        /\ finished[1].live + finished[2].live <= 1
        /\ finished[1].value = finished[2].value

\* C26, amended: each of two overlapping calls with the same key goes
\* upstream at most once, there is at most one entry under the key, and the
\* entry holds the value of the call that ended last
C26_LastWriterWins ==
    Overlapped =>
        /\ finished[1].live <= 1
        /\ finished[2].live <= 1
        /\ Cardinality(Live(finished[2].key)) <= 1
        /\ \A e \in Live(finished[2].key) : <<e.value>> = finished[2].value

\* two overlapping calls with the same key both went upstream and returned
\* different values; the entry holds the second
C26_Witness ==
    /\ Overlapped
    /\ finished[1].live = 1
    /\ finished[2].live = 1
    /\ finished[1].value # finished[2].value
    /\ \E e \in Live(finished[2].key) : <<e.value>> = finished[2].value

(***************************************************************************)
(* PART 6.  The premise hash (Common/Entities/ActionPremise.ts)            *)
(*                                                                         *)
(* An object is written as the sequence of its <<key, value>> pairs in the *)
(* order in which its keys were set, an array as the sequence of its       *)
(* elements.  A premise is the object {kind, config, authorIs, itemIs}:    *)
(* kind is a string, config an object of plain values, authorIs an object  *)
(* whose include and exclude are arrays of objects of plain values, itemIs *)
(* an array of objects of plain values.                                    *)
(***************************************************************************)

\* the keys of an object
Keys(obj) == {obj[i][1] : i \in DOMAIN obj}

\* the value an object has under a key
Field(obj, k) == obj[CHOOSE i \in DOMAIN obj : obj[i][1] = k][2]

\* what objectHash feeds to the digest for an object of plain values: every
\* key with its value, the keys sorted
HashedFlat(obj) == [k \in Keys(obj) |-> Field(obj, k)]

\* for an array of such objects: the elements in the order of the array
HashedList(arr) == [i \in DOMAIN arr |-> HashedFlat(arr[i])]

\* for an authorIs object
HashedAuthorIs(obj) ==
    [k \in Keys(obj) |-> IF k \in {"include", "exclude"}
                         THEN HashedList(Field(obj, k))
                         ELSE Field(obj, k)]

\* for a premise
HashedPremise(prem) ==
    [k \in Keys(prem) |-> CASE k = "config" -> HashedFlat(Field(prem, k))
                            [] k = "authorIs" -> HashedAuthorIs(Field(prem, k))
                            [] k = "itemIs" -> HashedList(Field(prem, k))
                            [] OTHER -> Field(prem, k)]

\* a default of a destructuring: the value under the key, or the default
OrElse(obj, k, default) == IF k \in Keys(obj) THEN Field(obj, k) ELSE default

\* the constructor with a configHash over the config of the premise alone
ActionPremiseCtorConfigOnly(data) ==
    LET authorIs == OrElse(data.config, "authorIs", <<>>)
        include == OrElse(authorIs, "include", <<>>)
        exclude == OrElse(authorIs, "exclude", <<>>)
        itemIs == OrElse(data.config, "itemIs", <<>>)
    IN [kind |-> data.kind,
        config |-> Field(data.config, "config"),
        active |-> TRUE,
        configHash |-> sha1(HashedFlat(Field(data.config, "config"))),
        name |-> data.name,
        itemIsConfigHash |-> IF Len(itemIs) > 0 THEN sha1(HashedList(itemIs)) ELSE NoHash,
        authorIsConfigHash |->
            IF Len(include) > 0
            THEN sha1([include |-> HashedList(include)])
            ELSE IF Len(exclude) > 0
                 THEN sha1([excludeCondition |-> OrElse(authorIs, "excludeCondition", "undefined"),
                            exclude |-> HashedList(exclude)])
                 ELSE NoHash]

\* new ActionPremise(data), lines 73-108: data.config is the premise
ActionPremiseCtor(data) ==
    LET authorIs == OrElse(data.config, "authorIs", <<>>)
        include == OrElse(authorIs, "include", <<>>)
        exclude == OrElse(authorIs, "exclude", <<>>)
        itemIs == OrElse(data.config, "itemIs", <<>>)
    IN [kind |-> data.kind,
        config |-> Field(data.config, "config"),
        active |-> TRUE,
        configHash |-> sha1(HashedPremise(data.config)),
        name |-> data.name,
        itemIsConfigHash |-> IF Len(itemIs) > 0 THEN sha1(HashedList(itemIs)) ELSE NoHash,
        authorIsConfigHash |->
            IF Len(include) > 0
            THEN sha1([include |-> HashedList(include)])
            ELSE IF Len(exclude) > 0
                 THEN sha1([excludeCondition |-> OrElse(authorIs, "excludeCondition", "undefined"),
                            exclude |-> HashedList(exclude)])
                 ELSE NoHash]

\* the premises the entities are built from
CritA == << <<"name", "n1">>, <<"flairText", "f">> >>

CritAReordered == << <<"flairText", "f">>, <<"name", "n1">> >>

StateA == << <<"removed", "false">> >>

StateB == << <<"locked", "true">> >>

PremiseOf(kind, config, authorIs, itemIs) ==
    << <<"kind", kind>>, <<"config", config>>, <<"authorIs", authorIs>>, <<"itemIs", itemIs>> >>

BasePremise ==
    PremiseOf("comment", << <<"content", "c">>, <<"lock", "true">> >>,
              << <<"include", <<CritA>> >> >>, <<StateA, StateB>>)

\* the base premise with the keys set in another order, at the top and within
ReorderedPremise ==
    << <<"itemIs", <<StateA, StateB>> >>,
       <<"authorIs", << <<"include", <<CritAReordered>> >> >> >>,
       <<"config", << <<"lock", "true">>, <<"content", "c">> >> >>,
       <<"kind", "comment">> >>

PremisePool ==
    { BasePremise,
      ReorderedPremise,
      PremiseOf("comment", << <<"lock", "true">>, <<"content", "c">> >>,
                << <<"include", <<CritA>> >> >>, <<StateA, StateB>>),
      PremiseOf("lock", << <<"content", "c">>, <<"lock", "true">> >>,
                << <<"include", <<CritA>> >> >>, <<StateA, StateB>>),
      PremiseOf("comment", << <<"content", "d">>, <<"lock", "true">> >>,
                << <<"include", <<CritA>> >> >>, <<StateA, StateB>>),
      PremiseOf("comment", << <<"content", "c">>, <<"lock", "true">> >>,
                << <<"exclude", <<CritA>> >> >>, <<StateA, StateB>>),
      PremiseOf("comment", << <<"content", "c">>, <<"lock", "true">> >>,
                << <<"include", <<CritA>> >> >>, <<StateB, StateA>>),
      PremiseOf("comment", << <<"content", "c">>, <<"lock", "true">> >>,
                << <<"include", <<CritA>> >> >>, <<StateA>>),
      PremiseOf("comment", << <<"content", "c">>, <<"lock", "true">> >>,
                << <<"include", <<>> >> >>, <<>>) }

\* two Action objects hand their premises to the constructor
NewActionPremise ==
    /\ premises.built = <<>>
    /\ premises' = [premises EXCEPT !.built =
           [i \in 1..2 |-> ActionPremiseCtor([kind |-> Field(premises.from[i], "kind"),
                                              config |-> premises.from[i],
                                              name |-> "x"])]]
    /\ UNCHANGED <<app, lateVars>>

PremInit == premises \in [from : PremisePool \X PremisePool, built : {<<>>}]

PremIdle == premises = [from |-> <<>>, built |-> <<>>]

(***************************************************************************)
(* PART 7.  App.buildManagers (the loop over the subreddits to run)        *)
(***************************************************************************)

\* Bound: number of subreddits to run
MaxSubs == 3

\* what the wiki page of a subreddit holds: a page that cannot be read, an
\* empty page, a text that is neither JSON nor YAML, a configuration the
\* Manager constructor rejects with an error it has logged or with one it
\* has not, or a valid configuration
WikiStates == {"unreadable", "empty", "unparseable", "invalidLogged", "invalid", "ok"}

SubNames == 1..MaxSubs

\* the lists of subreddits buildManagers may be left with at line 170
RunLists ==
    {run \in UNION {[1..n -> [name : SubNames, wiki : WikiStates]] : n \in 0..MaxSubs} :
        \A i, j \in DOMAIN run : run[i].name = run[j].name => i = j}

\* new Manager(sub, client, logger, configObj, options)
NewManager(sub) == [subreddit |-> sub.name]

\* an iteration of the loop that lets the failure of a subreddit out of
\* buildManagers
BuildManagersStepAborting ==
    /\ app.phase = "loop"
    /\ app.at <= Len(app.subsToRun)
    /\ \E sub \in {app.subsToRun[app.at]} :
          IF sub.wiki = "ok"
          THEN app' = [app EXCEPT !.subSchedule = Append(@, NewManager(sub)),
                                  !.at = @ + 1]
          ELSE app' = [app EXCEPT !.phase = "done", !.threw = TRUE]
    /\ UNCHANGED <<premises, lateVars>>

\* one iteration of the loop, lines 172-205
BuildManagersStep ==
    /\ app.phase = "loop"
    /\ app.at <= Len(app.subsToRun)
    /\ \E sub \in {app.subsToRun[app.at]} :
          CASE sub.wiki = "unreadable" ->
                  app' = [app EXCEPT !.errors = Append(@, <<sub.name, "Could not read wiki configuration">>),
                                     !.at = @ + 1]
            [] sub.wiki = "empty" ->
                  app' = [app EXCEPT !.errors = Append(@, <<sub.name, "Wiki page contents was empty">>),
                                     !.at = @ + 1]
            [] sub.wiki = "unparseable" ->
                  app' = [app EXCEPT !.errors = Append(@, <<sub.name, "Could not parse wiki page contents as JSON or YAML">>),
                                     !.at = @ + 1]
            [] sub.wiki = "invalid" ->
                  app' = [app EXCEPT !.errors = Append(@, <<sub.name, "Config was not valid">>),
                                     !.at = @ + 1]
            [] sub.wiki = "invalidLogged" ->
                  app' = [app EXCEPT !.at = @ + 1]
            [] sub.wiki = "ok" ->
                  app' = [app EXCEPT !.subSchedule = Append(@, NewManager(sub)),
                                     !.at = @ + 1]
    /\ UNCHANGED <<premises, lateVars>>

\* after the loop, line 206
BuildManagersEnd ==
    /\ app.phase = "loop"
    /\ app.at > Len(app.subsToRun)
    /\ app' = [app EXCEPT !.subManagers = app.subSchedule, !.phase = "done"]
    /\ UNCHANGED <<premises, lateVars>>

AppInit ==
    \E run \in RunLists :
        app = [subsToRun |-> run, at |-> 1, subSchedule |-> <<>>, subManagers |-> <<>>,
               errors |-> <<>>, phase |-> "loop", threw |-> FALSE]

AppIdle ==
    app = [subsToRun |-> <<>>, at |-> 0, subSchedule |-> <<>>, subManagers |-> <<>>,
           errors |-> <<>>, phase |-> "idle", threw |-> FALSE]

PremNext == NewActionPremise /\ UNCHANGED <<ruleVars, regVars, cfgVars, resVars>>

AppNext ==
    /\ \/ BuildManagersStep
       \/ BuildManagersEnd
    /\ UNCHANGED <<ruleVars, regVars, cfgVars, resVars>>

(***************************************************************************)
(* Claims about the premise hash and about buildManagers                   *)
(***************************************************************************)

\* two objects of plain values hold the same pairs, in any order
SameFlat(o1, o2) ==
    /\ Len(o1) = Len(o2)
    /\ \E f \in Permutations(DOMAIN o1) : \A i \in DOMAIN o1 : o2[i] = o1[f[i]]

\* two arrays of such objects hold the same objects in the same order
SameList(a1, a2) ==
    /\ Len(a1) = Len(a2)
    /\ \A i \in DOMAIN a1 : SameFlat(a1[i], a2[i])

\* two authorIs objects hold the same keys with the same values, in any order
SameAuthorIs(o1, o2) ==
    /\ Len(o1) = Len(o2)
    /\ \E f \in Permutations(DOMAIN o1) : \A i \in DOMAIN o1 :
          /\ o2[i][1] = o1[f[i]][1]
          /\ IF o2[i][1] \in {"include", "exclude"}
             THEN SameList(o1[f[i]][2], o2[i][2])
             ELSE o1[f[i]][2] = o2[i][2]

\* the value of a field of a premise is the same in both
SameValue(k, v1, v2) ==
    CASE k = "config" -> SameFlat(v1, v2)
      [] k = "authorIs" -> SameAuthorIs(v1, v2)
      [] k = "itemIs" -> SameList(v1, v2)
      [] OTHER -> v1 = v2

PremiseFields == {"kind", "config", "authorIs", "itemIs"}

\* the two premises differ in nothing but the order of keys
KeyOrderOnly(p, q) == \A k \in PremiseFields : SameValue(k, Field(p, k), Field(q, k))

PremisesBuilt == premises.built # <<>>

\* C27: the configHash of two premises that differ only in the order of
\* object keys is the same, and the configHash of two premises that differ
\* in the value of kind, config, authorIs or itemIs is not
C27_PremiseHashCanonical ==
    PremisesBuilt =>
        /\ KeyOrderOnly(premises.from[1], premises.from[2])
              => premises.built[1].configHash = premises.built[2].configHash
        /\ ~KeyOrderOnly(premises.from[1], premises.from[2])
              => premises.built[1].configHash # premises.built[2].configHash

\* two premises with their keys in different orders, at the top and within,
\* were given the same hash
C27_Witness ==
    /\ PremisesBuilt
    /\ premises.from[1] = BasePremise
    /\ premises.from[2] = ReorderedPremise
    /\ premises.from[1] # premises.from[2]
    /\ premises.built[1].configHash = premises.built[2].configHash

\* the subreddits to run whose wiki page holds a valid configuration, in the
\* order of the list
Buildable(run) == SelectSeq(run, LAMBDA sub : sub.wiki = "ok")

\* C28: a subreddit whose wiki page cannot be read, is empty, cannot be
\* parsed or holds an invalid configuration stops only its own build: when
\* buildManagers is done it has not thrown, and subManagers holds exactly
\* one Manager for each of the other subreddits to run, in the order of the
\* list
C28_BuildFailureIsolated ==
    app.phase = "done" =>
        /\ ~app.threw
        /\ Len(app.subManagers) = Len(Buildable(app.subsToRun))
        /\ \A i \in DOMAIN app.subManagers :
              app.subManagers[i].subreddit = Buildable(app.subsToRun)[i].name

\* a subreddit whose page cannot be read stood between two that were built,
\* the later of the two listed first by name
C28_Witness ==
    /\ app.phase = "done"
    /\ Len(app.subsToRun) = 3
    /\ app.subsToRun[1].wiki = "ok"
    /\ app.subsToRun[2].wiki = "unreadable"
    /\ app.subsToRun[3].wiki = "ok"
    /\ app.subsToRun[1].name > app.subsToRun[3].name
    /\ Len(app.subManagers) = 2
    /\ app.subManagers[1].subreddit = app.subsToRun[1].name
    /\ app.subManagers[2].subreddit = app.subsToRun[3].name

(***************************************************************************)
(* PART 8.  CommentAction.process (Action/CommentAction.ts)                *)
(***************************************************************************)

\* new CommentAction(options), lines 15-27, with the dryRun the Action base
\* class keeps
CommentActionCtor(content, lock, sticky, distinguish, dryRun) ==
    [content |-> content, lock |-> lock, sticky |-> sticky,
     distinguish |-> distinguish, dryRun |-> dryRun]

\* a call process makes: what is called, on the item, on the reply it got
\* back or on the resources, and the argument that matters
CallOn(on, op, arg) == [on |-> on, op |-> op, arg |-> arg]

StickyArg(sticky) == IF sticky THEN "sticky" ELSE "not sticky"

\* process without the test of item.archived
processIgnoringArchived(self, item) ==
    <<CallOn("resources", "getContent", "content")>>
    \o <<CallOn("item", "reply", "content")>>
    \o (IF self.lock /\ ~self.dryRun THEN <<CallOn("item", "lock", "none")>> ELSE <<>>)
    \o (IF self.distinguish /\ ~self.dryRun
        THEN <<CallOn("reply", "distinguish", StickyArg(self.sticky))>>
        ELSE <<>>)

\* process(item, ruleResults), lines 33-58: the calls it makes, in order
process(self, item) ==
    <<CallOn("resources", "getContent", "content")>>
    \o (IF item.archived
        THEN <<>>
        ELSE <<CallOn("item", "reply", "content")>>
             \o (IF self.lock
                 THEN IF ~self.dryRun THEN <<CallOn("item", "lock", "none")>> ELSE <<>>
                 ELSE <<>>)
             \o (IF self.distinguish /\ ~self.dryRun
                 THEN <<CallOn("reply", "distinguish", StickyArg(self.sticky))>>
                 ELSE <<>>))

\* the actions and the items of the model
CommentActions ==
    {CommentActionCtor(content, lock, sticky, distinguish, dryRun) :
        content \in {<<" ", "h", "i">>, <<"wiki:", "p">>},
        lock \in BOOLEAN, sticky \in BOOLEAN, distinguish \in BOOLEAN, dryRun \in BOOLEAN}

Items == [kind : {"comment", "submission"}, archived : BOOLEAN]

\* a run of process on the item
ProcessCall ==
    /\ commentRun.phase = "ready"
    /\ commentRun' = [commentRun EXCEPT
                         !.calls = process(commentRun.self, commentRun.item),
                         !.phase = "done"]
    /\ UNCHANGED runner

CommentInit ==
    \E self \in CommentActions, item \in Items :
        commentRun = [self |-> self, item |-> item, calls |-> <<>>, phase |-> "ready"]

CommentIdle ==
    commentRun = [self |-> CommentActionCtor(<<>>, FALSE, FALSE, FALSE, FALSE),
                  item |-> [kind |-> "comment", archived |-> FALSE],
                  calls |-> <<>>, phase |-> "idle"]

CommentNext == ProcessCall /\ UNCHANGED <<ruleVars, regVars, cfgVars, resVars, premises, app>>

(***************************************************************************)
(* Claims about CommentAction                                              *)
(***************************************************************************)

Processed == commentRun.phase = "done"

\* the calls made with the given name
CallsOf(op) == {k \in DOMAIN commentRun.calls : commentRun.calls[k].op = op}

\* the calls that change something on the platform
Mutating == CallsOf("reply") \cup CallsOf("lock") \cup CallsOf("distinguish")

\* C31: with lock set and no dry run, process locks the reply it created and
\* not the item replied to; with lock not set it locks nothing
C31_LockGoesToReply ==
    Processed =>
        /\ (commentRun.self.lock /\ ~commentRun.self.dryRun /\ ~commentRun.item.archived) =>
              /\ \E k \in CallsOf("lock") : commentRun.calls[k].on = "reply"
              /\ \A k \in CallsOf("lock") : commentRun.calls[k].on # "item"
        /\ ~commentRun.self.lock => CallsOf("lock") = {}

\* C34: in a dry run process makes no call that changes the platform: no
\* reply, no lock, no distinguish
C34_DryRunMutatesNothing ==
    (Processed /\ commentRun.self.dryRun) => Mutating = {}

\* C35: on an archived item process posts no reply and makes no lock or
\* distinguish call, whatever lock, sticky, distinguish and dryRun are
C35_ArchivedUntouched ==
    (Processed /\ commentRun.item.archived) => Mutating = {}

\* an action with lock, sticky and distinguish set, not in a dry run, has
\* run on an archived item and only read its content
C35_Witness ==
    /\ Processed
    /\ commentRun.item.archived
    /\ commentRun.self.lock
    /\ commentRun.self.sticky
    /\ commentRun.self.distinguish
    /\ ~commentRun.self.dryRun
    /\ commentRun.calls = <<CallOn("resources", "getContent", "content")>>

(***************************************************************************)
(* PART 9.  App.runManagers and App.heartbeat                              *)
(*                                                                         *)
(* manager.handle() and the promise of pEvent are not of this program:     *)
(* handle() starts the manager or throws, the awaited promise stays        *)
(* pending, resolves or rejects.  The lengths of the sleeps are left out.  *)
(***************************************************************************)

\* let maxTimeoutCount = 4
maxTimeoutCount == 4

\* let maxOtherCount = 0
maxOtherCount == 0

\* dayjs().diff(lastErrorAt, 'minute') >= 5
FiveMinutes == 5

\* Bound: number of managers of the App
NumManagers == 2

\* Bound: the non-timeout errors that occur while otherRetryCount is below it
MaxOther == 2

\* err.message.includes('ETIMEDOUT') || err.code.includes('ETIMEDOUT'), or not
ErrorKinds == {"ETIMEDOUT", "other"}

\* minutes between an error and the one before, as dayjs().diff gives them
Gaps == {0, FiveMinutes - 1, FiveMinutes, FiveMinutes + 1}

NoLast == [kind |-> "none", gap |-> 0, hadError |-> FALSE, timeoutBefore |-> 0,
           otherBefore |-> 0]

\* the catch block with counters that are never cleared
CatchNeverClearing(r, kind, gap) ==
    LET timeoutCount == IF kind = "ETIMEDOUT" THEN r.timeoutCount + 1 ELSE r.timeoutCount
        otherRetryCount == IF kind = "ETIMEDOUT" THEN r.otherRetryCount
                           ELSE r.otherRetryCount + 1
        rethrown == IF kind = "ETIMEDOUT"
                    THEN timeoutCount > maxTimeoutCount
                    ELSE maxOtherCount > otherRetryCount
    IN [r EXCEPT !.timeoutCount = timeoutCount,
                 !.otherRetryCount = otherRetryCount,
                 !.hadError = TRUE,
                 !.phase = IF rethrown THEN "thrown" ELSE "sleeping",
                 !.last = [kind |-> kind, gap |-> gap, hadError |-> r.hadError,
                           timeoutBefore |-> r.timeoutCount,
                           otherBefore |-> r.otherRetryCount]]

\* the catch block, lines 252-282, up to its throw or its await sleep(ms);
\* gap is what dayjs().diff(lastErrorAt, 'minute') gives
Catch(r, kind, gap) ==
    LET clear == r.hadError /\ gap >= FiveMinutes
        timeoutStart == IF clear THEN 0 ELSE r.timeoutCount
        otherStart == IF clear THEN 0 ELSE r.otherRetryCount
        timeoutCount == IF kind = "ETIMEDOUT" THEN timeoutStart + 1 ELSE timeoutStart
        otherRetryCount == IF kind = "ETIMEDOUT" THEN otherStart ELSE otherStart + 1
        rethrown == IF kind = "ETIMEDOUT"
                    THEN timeoutCount > maxTimeoutCount
                    ELSE maxOtherCount > otherRetryCount
    IN [r EXCEPT !.timeoutCount = timeoutCount,
                 !.otherRetryCount = otherRetryCount,
                 !.hadError = TRUE,
                 !.phase = IF rethrown THEN "thrown" ELSE "sleeping",
                 !.last = [kind |-> kind, gap |-> gap, hadError |-> r.hadError,
                           timeoutBefore |-> r.timeoutCount,
                           otherBefore |-> r.otherRetryCount]]

\* the start of the heartbeat whatever heartBeating is
StartHeartbeatUnchecked(r) ==
    IF r.heartbeatInterval # 0
    THEN [r EXCEPT !.heartBeating = TRUE, !.beats = @ + 1]
    ELSE r

\* lines 245-247 with heartbeat() up to its first await, lines 209-213
StartHeartbeat(r) ==
    IF r.heartbeatInterval # 0 /\ ~r.heartBeating
    THEN [r EXCEPT !.heartBeating = TRUE, !.beats = @ + 1]
    ELSE r

\* the errors that may occur: non-timeout errors are capped
MayFail(kind) == kind = "ETIMEDOUT" \/ runner.otherRetryCount < MaxOther

\* one pass of the try block, lines 238-249, up to the await, with the catch
\* block when a handle() throws; skipped notes a pass that found the
\* heartbeat loop active
RunManagersTry ==
    /\ runner.phase = "try"
    /\ \/ \E r \in {[runner EXCEPT !.running = [i \in 1..NumManagers |-> TRUE],
                                     !.skipped = @ \/ runner.heartBeating]} :
             runner' = [StartHeartbeat(r) EXCEPT !.phase = "waiting"]
       \/ \E failAt \in {i \in 1..NumManagers : ~runner.running[i]},
             kind \in ErrorKinds, gap \in Gaps :
             /\ MayFail(kind)
             /\ \E r \in {[runner EXCEPT !.running =
                              [i \in 1..NumManagers |-> runner.running[i] \/ i < failAt]]} :
                   runner' = Catch(r, kind, gap)
    /\ UNCHANGED commentRun

\* the awaited promise resolves: keepRunning = false, lines 250-251
AwaitEnds ==
    /\ runner.phase = "waiting"
    /\ runner' = [runner EXCEPT !.phase = "done"]
    /\ UNCHANGED commentRun

\* the awaited promise rejects: the catch block
AwaitRejects ==
    /\ runner.phase = "waiting"
    /\ \E kind \in ErrorKinds, gap \in Gaps :
          /\ MayFail(kind)
          /\ runner' = Catch(runner, kind, gap)
    /\ UNCHANGED commentRun

\* the sleep of the catch block is over: the next pass of the while loop
BackoffOver ==
    /\ runner.phase = "sleeping"
    /\ runner' = [runner EXCEPT !.phase = "try"]
    /\ UNCHANGED commentRun

\* a pass of the loop of heartbeat, lines 214-220
HeartbeatTick ==
    /\ runner.beats > 0
    /\ \E low \in BOOLEAN :
          /\ runner.lastBeat # (IF low THEN "warn" ELSE "info")
          /\ runner' = [runner EXCEPT !.lastBeat = IF low THEN "warn" ELSE "info"]
    /\ UNCHANGED commentRun

\* the loop of heartbeat ends by an error: finally, lines 221-223
HeartbeatFails ==
    /\ runner.beats > 0
    /\ runner' = [runner EXCEPT !.heartBeating = FALSE, !.beats = @ - 1]
    /\ UNCHANGED commentRun

RunnerInit ==
    \E interval \in {0, 300} :
        runner = [heartbeatInterval |-> interval, heartBeating |-> FALSE, beats |-> 0,
                  lastBeat |-> "none", timeoutCount |-> 0, otherRetryCount |-> 0,
                  hadError |-> FALSE, phase |-> "try", skipped |-> FALSE,
                  running |-> [i \in 1..NumManagers |-> FALSE], last |-> NoLast]

RunnerIdle ==
    runner = [heartbeatInterval |-> 0, heartBeating |-> FALSE, beats |-> 0,
              lastBeat |-> "none", timeoutCount |-> 0, otherRetryCount |-> 0,
              hadError |-> FALSE, phase |-> "idle", skipped |-> FALSE,
              running |-> <<>>, last |-> NoLast]

RunnerNext ==
    /\ \/ RunManagersTry
       \/ AwaitEnds
       \/ AwaitRejects
       \/ BackoffOver
       \/ HeartbeatTick
       \/ HeartbeatFails
    /\ UNCHANGED <<ruleVars, regVars, cfgVars, resVars, premises, app>>

(***************************************************************************)
(* Claims about runManagers and heartbeat                                  *)
(***************************************************************************)

\* the last error came five minutes or more after the one before
AfterLongGap == runner.last.hadError /\ runner.last.gap >= 5

\* C36: timeoutCount never exceeds maxTimeoutCount + 1; a timeout error less
\* than five minutes after the error before adds one to it; an error five
\* minutes or more after the one before sets both counters to 0 before it
\* is counted; the fifth timeout counted is rethrown, an earlier one is
\* followed by a sleep
C36_TimeoutsCounted ==
    /\ runner.timeoutCount <= 5
    /\ (runner.last.kind = "ETIMEDOUT" /\ ~AfterLongGap) =>
          runner.timeoutCount = runner.last.timeoutBefore + 1
    /\ (runner.last.kind = "ETIMEDOUT" /\ AfterLongGap) =>
          runner.timeoutCount = 1 /\ runner.otherRetryCount = 0
    /\ (runner.last.kind = "other" /\ AfterLongGap) =>
          runner.timeoutCount = 0 /\ runner.otherRetryCount = 1
    /\ runner.last.kind = "ETIMEDOUT" =>
          (runner.phase = "thrown") = (runner.timeoutCount = 5)
    /\ runner.phase = "sleeping" => runner.timeoutCount < 5

\* the fifth timeout in a row was rethrown
C36_Witness ==
    /\ runner.phase = "thrown"
    /\ runner.last.kind = "ETIMEDOUT"
    /\ runner.last.timeoutBefore = 4
    /\ runner.last.hadError
    /\ runner.last.gap = 4
    /\ runner.timeoutCount = 5

\* C37: a non-timeout error is rethrown to the caller and the managers are
\* not started again
C37_OtherErrorRethrown ==
    runner.last.kind = "other" => runner.phase = "thrown"

\* C38: at most one heartbeat loop is active; heartBeating is true exactly
\* while a loop is active, and no loop is started when heartbeatInterval
\* is 0
C38_OneHeartbeat ==
    /\ runner.beats <= 1
    /\ runner.heartBeating = (runner.beats = 1)
    /\ runner.heartbeatInterval = 0 => runner.beats = 0

\* a pass of the while loop after an error found the heartbeat loop active
\* and left it alone
C38_Witness ==
    /\ runner.phase = "waiting"
    /\ runner.last.kind # "none"
    /\ runner.skipped
    /\ runner.heartBeating
    /\ runner.beats = 1

LateIdle == CommentIdle /\ RunnerIdle

SideIdle == PremIdle /\ AppIdle /\ LateIdle

(***************************************************************************)
(* Specifications                                                          *)
(***************************************************************************)

vars == <<ruleVars, regVars, cfgVars, hostVars>>

\* the rule engine with no rule to run
RuleIdle ==
    /\ rules = <<>>
    /\ itemState = [itemPass |-> TRUE, authorPass |-> TRUE]
    /\ premiseDB = {}
    /\ rulePremiseEntity = <<>>
    /\ initTried = <<>>
    /\ existingResults = <<>>
    /\ nextRule = 1
    /\ cur = 0
    /\ pc = "idle"
    /\ res = NewResult(NoPremise)
    /\ ret = NoRet
    /\ trace = <<>>
    /\ processCalls = <<>>

\* the builder with an empty document
CfgIdle ==
    /\ doc = DocObj(Undefined, Undefined, Undefined)
    /\ bot = NoBot
    /\ calls = 0
    /\ cfgOut = NoOut
    /\ cfgPrev = NoOut

Init == RuleInit /\ RegInit /\ CfgIdle /\ ResIdle /\ SideIdle

Next == RuleNext /\ UNCHANGED <<regVars, cfgVars, hostVars>>

\* one evaluation pass of the rules of a check over one item
Spec == Init /\ [][Next]_vars

InitRegistry == RuleIdle /\ RegInit /\ CfgIdle /\ ResIdle /\ SideIdle

NextRegistry == RegNext

\* calls of extractNamedRules and extractNamedActions on one registry
SpecRegistry == InitRegistry /\ [][NextRegistry]_vars

InitConfig == RuleIdle /\ RegInit /\ CfgInit /\ ResIdle /\ SideIdle

NextConfig == CfgNext

\* calls of hydrateConfig and parseToStructured on one document object
SpecConfig == InitConfig /\ [][NextConfig]_vars

InitFragment == RuleIdle /\ RegInit /\ CfgIdle /\ ResIdle /\ SideIdle

NextFragment == HydrateConfigFragmentCall

\* calls of hydrateConfigFragment
SpecFragment == InitFragment /\ [][NextFragment]_vars

InitResources == RuleIdle /\ RegInit /\ CfgIdle /\ ResInit /\ SideIdle

NextResources == ResNext

\* calls of two SubredditResources instances on the shared cache
SpecResources == InitResources /\ [][NextResources]_vars

\* the premise entities: two premises are handed to the constructor
InitPremise == RuleIdle /\ RegInit /\ CfgIdle /\ ResIdle /\ PremInit /\ AppIdle /\ LateIdle

NextPremise == PremNext

SpecPremise == InitPremise /\ [][NextPremise]_vars

\* buildManagers over every list of subreddits to run
InitApp == RuleIdle /\ RegInit /\ CfgIdle /\ ResIdle /\ PremIdle /\ AppInit /\ LateIdle

NextApp == AppNext

SpecApp == InitApp /\ [][NextApp]_vars

\* process of every CommentAction on every item
InitComment == RuleIdle /\ RegInit /\ CfgIdle /\ ResIdle /\ PremIdle /\ AppIdle
               /\ CommentInit /\ RunnerIdle

NextComment == CommentNext

SpecComment == InitComment /\ [][NextComment]_vars

\* runManagers with its heartbeat
InitRunner == RuleIdle /\ RegInit /\ CfgIdle /\ ResIdle /\ PremIdle /\ AppIdle
              /\ CommentIdle /\ RunnerInit

NextRunner == RunnerNext

SpecRunner == InitRunner /\ [][NextRunner]_vars

====
